---- MODULE Spec2Model ----
(***************************************************************************)
(* Research-agent: the plan / execute / reflect / replan / summarize loop  *)
(* of ResearchPaperAgent.run (src/research_agent/agent.py), the bounded    *)
(* ContextMemory it records into (src/research_agent/memory.py), and the   *)
(* ToolExecutor / HybridRetriever it queries (tools.py, retrieval.py).     *)
(***************************************************************************)
EXTENDS Integers, Sequences, FiniteSets, TLC

VARIABLES
    pc,                    \* position of run(): start, loop, reflecting, summarizing, done, failed
    client,                \* which grok_client the agent was constructed with
    max_iterations,        \* Settings.max_iterations
    memory,                \* ContextMemory: max_events, compress_batch, events, summary, citation_counter
    add_log,               \* history: the citations argument of every add_event call so far
    plan,                  \* the plan returned by grok.plan
    steps,                 \* the step queue (local `steps` of run)
    iteration,             \* number of started iterations of `for _ in range(max_iterations)`
    step,                  \* the popped step being processed (local `step`)
    observation,           \* its observation (local `observation`)
    reflection,            \* the reflection of the last reflected step (local `reflection`)
    executed_count,
    expected_total_steps,
    pooled_hits,           \* chunk id -> best hit
    execution_trace,
    last_primary_paper,
    evidence,              \* the evidence slice given to summarize
    summarize_calls,       \* history: evidence argument of every grok.summarize call
    result,                \* the returned result, or None
    executed,              \* history: the queue entries popped so far, in order
    observed,              \* history: the observations of the steps executed so far, in order
    next_uid,              \* history: number of queue entries created so far
    run_no,                \* number of the run() call on this agent, counted from 1
    emitted,               \* history: the events this run gave to emit(), in order
    run_state,             \* runs[run_id] of the worker that drives this run (server.py)
    reflect_calls,         \* history: step and observation of every grok.reflect call of this run
    grok_live,             \* GrokClient: not grok_mock and an api key is set
    grok_calls,            \* history: the calls made on a GrokClient, with reply and outcome
    include_full_trace,    \* the include_full_trace argument of run()
    full_trace,            \* local `full_trace` of run
    engine,                \* the tables of a HybridRetriever and a ToolExecutor under study
    tool_call,             \* the last call made on that engine, with its result
    reader,                \* a GET /api/runs/<id> request beside the run (server.py)
    registry               \* runs, run_order and the workers of create_handler (server.py)

vars == <<pc, client, max_iterations, memory, add_log, plan, steps, iteration, step,
          observation, reflection, executed_count, expected_total_steps, pooled_hits,
          execution_trace, last_primary_paper, evidence, summarize_calls, result,
          executed, observed, next_uid, run_no, emitted, run_state, reflect_calls,
          grok_live, grok_calls, include_full_trace, full_trace, engine, tool_call, reader, registry>>

agentVars == <<pc, client, max_iterations, plan, steps, iteration, step,
               observation, reflection, executed_count, expected_total_steps, pooled_hits,
               execution_trace, last_primary_paper, evidence, summarize_calls, result,
               executed, observed, next_uid, run_no, emitted, run_state, reflect_calls,
               grok_live, grok_calls, include_full_trace, full_trace, engine, tool_call,
               reader, registry>>

None == "None"

\* the element of a one-element set; {F(x) : x \in {e}} evaluates e once
TheOne(S) == CHOOSE x \in S : TRUE

Min(a, b) == IF a < b THEN a ELSE b
Max(a, b) == IF a > b THEN a ELSE b

(***************************************************************************)
(* Bounds of the model.                                                    *)
(***************************************************************************)
MaxEventsBound == 3      \* ContextMemory(max_events) ranges over 0..MaxEventsBound
MaxBatchBound == 3       \* ContextMemory(compress_batch) ranges over 1..MaxBatchBound
MaxAdds == 5             \* add_event calls per behaviour of the memory specification

(***************************************************************************)
(* Python slicing on lists and strings.                                    *)
(***************************************************************************)
\* seq[:n] for n >= 0
Take(seq, n) == TheOne({SubSeq(s, 1, Min(n, Len(s))) : s \in {seq}})
\* seq[n:] for n >= 0
Drop(seq, n) == TheOne({SubSeq(s, Min(n, Len(s)) + 1, Len(s)) : s \in {seq}})
\* seq[-n:] for n >= 0 (seq[-0:] is the whole list)
LastN(seq, n) ==
    TheOne({IF n = 0 \/ n >= Len(s) THEN s ELSE SubSeq(s, Len(s) - n + 1, Len(s)) : s \in {seq}})

RECURSIVE Occurrences(_, _)
Occurrences(seq, x) ==
    IF seq = <<>> THEN 0
    ELSE (IF Head(seq) = x THEN 1 ELSE 0) + Occurrences(Tail(seq), x)

(***************************************************************************)
(* ContextMemory (memory.py).                                              *)
(***************************************************************************)
ContentPrefixCompress == 180
ContentPrefixSnapshot == 500
SnapshotSummaries == 3
DefaultCompressBatch == 4

\* ContextMemory.__init__
NewContextMemory(maxEvents, compressBatch) ==
    [max_events |-> maxEvents, compress_batch |-> compressBatch,
     events |-> <<>>, summary |-> <<>>, citation_counter |-> <<>>]

\* collections.Counter: a dict in insertion order, modelled as a sequence of
\* [key, count] entries.
CounterCount(counter, key) ==
    IF \E i \in 1..Len(counter) : counter[i].key = key
    THEN (CHOOSE e \in {counter[i] : i \in 1..Len(counter)} : e.key = key).count
    ELSE 0

CounterAdd(counter, key) ==
    IF \E i \in 1..Len(counter) : counter[i].key = key
    THEN [i \in 1..Len(counter) |->
            IF counter[i].key = key
            THEN [key |-> key, count |-> counter[i].count + 1]
            ELSE counter[i]]
    ELSE Append(counter, [key |-> key, count |-> 1])

\* Counter.update that counts each distinct citation of the list once.
RECURSIVE CounterUpdateDistinct(_, _)
CounterUpdateDistinct(counter, citations) ==
    IF citations = <<>> THEN counter
    ELSE LET rest == Tail(citations)
             again == \E i \in 1..Len(rest) : rest[i] = Head(citations)
         IN TheOne({CounterUpdateDistinct(c, rest) :
                       c \in {IF again THEN counter
                              ELSE CounterAdd(counter, Head(citations))}})

\* Counter.update(citations): one CounterAdd per element, in order
RECURSIVE CounterUpdate(_, _)
CounterUpdate(counter, citations) ==
    IF citations = <<>> THEN counter
    ELSE TheOne({CounterUpdate(c, Tail(citations)) :
                    c \in {CounterAdd(counter, Head(citations))}})

\* _compress_oldest that folds the batch latest event first
_compress_oldest_newest_first(mem) ==
    LET batch == Take(mem.events, mem.compress_batch)
        compact == [i \in 1..Len(batch) |->
                      [role |-> batch[Len(batch) + 1 - i].role,
                       content |-> Take(batch[Len(batch) + 1 - i].content,
                                        ContentPrefixCompress)]]
    IN [mem EXCEPT !.events = Drop(mem.events, mem.compress_batch),
                   !.summary = Append(mem.summary, compact)]

\* _compress_oldest that drops the batch without a summary entry
_compress_oldest_no_summary(mem) ==
    [mem EXCEPT !.events = Drop(mem.events, mem.compress_batch)]

\* _compress_oldest with the slice bounds off by one: one event too many is dropped.
_compress_oldest_off_by_one(mem) ==
    LET batch == Take(mem.events, mem.compress_batch)
        compact == [i \in 1..Len(batch) |->
                      [role |-> batch[i].role,
                       content |-> Take(batch[i].content, ContentPrefixCompress)]]
    IN [mem EXCEPT !.events = Drop(mem.events, mem.compress_batch + 1),
                   !.summary = Append(mem.summary, compact)]

\* ContextMemory._compress_oldest: the batch is folded into one summary entry,
\* the sequence of (role, content[:180]) of the removed events.
_compress_oldest(mem) ==
    LET batch == Take(mem.events, mem.compress_batch)
        compact == [i \in 1..Len(batch) |->
                      [role |-> batch[i].role,
                       content |-> Take(batch[i].content, ContentPrefixCompress)]]
    IN [mem EXCEPT !.events = Drop(mem.events, mem.compress_batch),
                   !.summary = Append(mem.summary, compact)]

\* add_event that compresses only once the log is two over the cap.
add_event_late_compress(mem, role, content, citations) ==
    LET appended == [mem EXCEPT
                       !.events = Append(mem.events,
                                         [role |-> role, content |-> content,
                                          citations |-> citations]),
                       !.citation_counter = CounterUpdate(mem.citation_counter, citations)]
    IN TheOne({IF Len(a.events) > a.max_events + 1 THEN _compress_oldest(a) ELSE a :
                  a \in {appended}})

\* ContextMemory.add_event
add_event(mem, role, content, citations) ==
    LET appended == [mem EXCEPT
                       !.events = Append(mem.events,
                                         [role |-> role, content |-> content,
                                          citations |-> citations]),
                       !.citation_counter = CounterUpdate(mem.citation_counter, citations)]
    IN TheOne({IF Len(a.events) > a.max_events THEN _compress_oldest(a) ELSE a :
                  a \in {appended}})

\* ContextMemory.snapshot
snapshot(mem) ==
    [summary_text |-> LastN(mem.summary, SnapshotSummaries),
     event_text |-> LET shown == LastN(mem.events, mem.max_events)
                    IN [i \in 1..Len(shown) |->
                          [role |-> shown[i].role,
                           content |-> Take(shown[i].content, ContentPrefixSnapshot)]]]

(***************************************************************************)
(* The corpus (dataset.py, schema.py).  Texts are sequences of words.      *)
(***************************************************************************)
SECTION_ORDER == <<"abstract", "methodology", "findings", "limitations">>

papers ==
    << [paper_id |-> "P1", title |-> <<"Hybrid", "Retrieval">>, year |-> 2021,
        stance |-> "support", citations |-> <<"P2", "P7">>, keywords |-> <<"RAG">>,
        abstract |-> <<"hybrid", "search", ",", "reviews">>,
        methodology |-> <<"dense", "index">>,
        findings |-> <<"recall", "improves">>,
        limitations |-> <<"noisy", "pdf">>],
       [paper_id |-> "P2", title |-> <<"Citation", "Graphs">>, year |-> 2019,
        stance |-> "contradict", citations |-> <<"P1">>, keywords |-> <<"graph">>,
        abstract |-> <<"citation", "reviews">>,
        methodology |-> <<"graph", "index">>,
        findings |-> <<"recall", "degrades">>,
        limitations |-> <<"sparse", "graph", "graph">>],
       [paper_id |-> "P3", title |-> <<"Hybrid", "Reviews">>, year |-> 2023,
        stance |-> "support", citations |-> <<"P1", "P2", "P1">>, keywords |-> <<"survey">>,
        abstract |-> <<"survey", "reviews">>,
        methodology |-> <<"dense", "graph">>,
        findings |-> <<"recall", "improves">>,
        limitations |-> <<"noisy", "index">>] >>

\* dataset.build_chunks: one chunk per (paper, section), papers outermost.
build_chunks(ps) ==
    [k \in 1..(Len(ps) * Len(SECTION_ORDER)) |->
        LET paper == ps[((k - 1) \div Len(SECTION_ORDER)) + 1]
            section == SECTION_ORDER[((k - 1) % Len(SECTION_ORDER)) + 1]
        IN [chunk_id |-> <<paper.paper_id, section>>,
            paper_id |-> paper.paper_id,
            title |-> paper.title,
            year |-> paper.year,
            section |-> section,
            text |-> paper[section],
            citations |-> paper.citations,
            keywords |-> paper.keywords,
            stance |-> paper.stance]]

chunks == build_chunks(papers)

(***************************************************************************)
(* HybridRetriever (retrieval.py).  Floats are fixed-point integers: idf   *)
(* at scale 1000, scores at scale ScoreScale, scores of a serialized hit    *)
(* (RetrievalHit.to_dict, rounded to 4 decimals) at scale 10000.           *)
(***************************************************************************)
ScoreScale == 100000
DictScale == 10000

\* TOKEN_PATTERN and str.lower on the words of the corpus and the queries.
LowerCase ==
    [w \in {"Hybrid", "Retrieval", "RAG", "Citation", "Graphs", "Reviews"} |->
        CASE w = "Hybrid" -> "hybrid"
          [] w = "Retrieval" -> "retrieval"
          [] w = "RAG" -> "rag"
          [] w = "Citation" -> "citation"
          [] w = "Graphs" -> "graphs"
          [] w = "Reviews" -> "reviews"]
NonTokens == {",", ".", "?", ""}

RECURSIVE tokenize(_)
tokenize(text) ==
    IF text = <<>> THEN <<>>
    ELSE LET w == Head(text)
         IN IF w \in NonTokens THEN tokenize(Tail(text))
            ELSE <<IF w \in DOMAIN LowerCase THEN LowerCase[w] ELSE w>> \o tokenize(Tail(text))

SeqSet(seq) == {seq[i] : i \in 1..Len(seq)}

\* HybridRetriever.__init__: tokenize(" ".join([title, text, " ".join(keywords)]))
MergedTokens(chunk) == tokenize(chunk.title \o chunk.text \o chunk.keywords)

\* HybridRetriever.__init__: chunk_tokens
chunk_tokens == [k \in 1..Len(chunks) |-> MergedTokens(chunks[k])]

\* doc_freq: number of chunks whose token set holds the token
doc_freq(tok) == Cardinality({k \in DOMAIN chunk_tokens : tok \in SeqSet(chunk_tokens[k])})

\* math.log((1 + total_docs) / (1 + freq)) + 1 for total_docs = 12, at scale 1000
IdfByFreq == <<2872, 2466, 2179, 1956, 1773, 1619, 1486, 1368, 1262, 1167, 1080, 1000>>

\* the idf of a token found in freq chunks; 1.0 for a token of no chunk
IdfOfFreq(freq) == IF freq = 0 THEN 1000 ELSE IdfByFreq[freq]

\* self.idf.get(tok, 1.0)
idf(tok) == IdfOfFreq(doc_freq(tok))

\* _tfidf_vector: token -> (count / total) * idf; the entry keeps the numerator
\* count * idf, the common denominator total is kept once.
_tfidf_vector(tokens) ==
    [den |-> Max(Len(tokens), 1),
     num |-> [tok \in SeqSet(tokens) |-> Occurrences(tokens, tok) * idf(tok)]]

RECURSIVE SumOver(_, _)
SumOver(f, S) ==
    IF S = {} THEN 0
    ELSE LET x == CHOOSE y \in S : TRUE IN f[x] + SumOver(f, S \ {x})

\* math.sqrt rounded down: the largest r in lo..hi with r * r <= n, by bisection
RECURSIVE ISqrtBetween(_, _, _)
ISqrtBetween(n, lo, hi) ==
    IF lo >= hi THEN lo
    ELSE LET mid == (lo + hi + 1) \div 2
         IN IF mid * mid <= n THEN ISqrtBetween(n, mid, hi) ELSE ISqrtBetween(n, lo, mid - 1)
ISqrt(n) == ISqrtBetween(n, 0, 46340)

\* cosine_similarity at scale ScoreScale (the denominators of the two vectors
\* cancel between numerator and norms)
cosine_similarity(vec_a, vec_b) ==
    IF DOMAIN vec_a.num = {} \/ DOMAIN vec_b.num = {} THEN 0
    ELSE LET common == DOMAIN vec_a.num \cap DOMAIN vec_b.num
             numerator == SumOver([t \in common |-> vec_a.num[t] * vec_b.num[t]], common)
             norm_a == ISqrt(SumOver([t \in DOMAIN vec_a.num |-> vec_a.num[t] * vec_a.num[t]],
                                     DOMAIN vec_a.num))
             norm_b == ISqrt(SumOver([t \in DOMAIN vec_b.num |-> vec_b.num[t] * vec_b.num[t]],
                                     DOMAIN vec_b.num))
         IN IF norm_a = 0 \/ norm_b = 0 THEN 0
            ELSE Min(ScoreScale, ((numerator \div norm_a) * ScoreScale) \div norm_b)

chunk_vectors == [k \in 1..Len(chunks) |-> _tfidf_vector(chunk_tokens[k])]

\* comparison of Python tuples of numbers
RECURSIVE TupleLess(_, _)
TupleLess(a, b) ==
    IF a = <<>> \/ b = <<>> THEN a = <<>> /\ b # <<>>
    ELSE IF Head(a) # Head(b) THEN Head(a) < Head(b)
         ELSE TupleLess(Tail(a), Tail(b))

\* list.sort(key=..., reverse=True) on [key, item] entries: stable, descending.
\* The entry at index i lands behind every entry with a larger key and behind
\* the earlier entries with an equal key.
PlaceDesc(seq, i) ==
    1 + Cardinality({j \in 1..Len(seq) :
                        \/ TupleLess(seq[i].key, seq[j].key)
                        \/ (seq[j].key = seq[i].key /\ j < i)})

SortDesc(seq) ==
    TheOne({[r \in 1..Len(s) |-> s[CHOOSE i \in 1..Len(s) : PlaceDesc(s, i) = r]] : s \in {seq}})

\* list.sort(key=...) on [key, item] entries: stable, ascending
PlaceAsc(seq, i) ==
    1 + Cardinality({j \in 1..Len(seq) :
                        \/ TupleLess(seq[j].key, seq[i].key)
                        \/ (seq[j].key = seq[i].key /\ j < i)})

SortAsc(seq) ==
    TheOne({[r \in 1..Len(s) |-> s[CHOOSE i \in 1..Len(s) : PlaceAsc(s, i) = r]] : s \in {seq}})

Items(seq) == TheOne({[i \in 1..Len(s) |-> s[i].item] : s \in {seq}})

\* search: len(overlap) / max(len(query_set), 1)
KeywordScore(query_set, token_set) ==
    (Cardinality(query_set \cap token_set) * ScoreScale) \div Max(Cardinality(query_set), 1)

\* a hybrid score that falls as the semantic score rises
RetrievalHit_SemanticPenalty(chunk, keyword_score, semantic_score, alpha100) ==
    [chunk |-> chunk,
     keyword_score |-> keyword_score,
     semantic_score |-> semantic_score,
     hybrid_score |-> (alpha100 * (ScoreScale - semantic_score)
                       + (100 - alpha100) * keyword_score) \div 100]

\* search: the RetrievalHit of one chunk
RetrievalHit(chunk, keyword_score, semantic_score, alpha100) ==
    [chunk |-> chunk,
     keyword_score |-> keyword_score,
     semantic_score |-> semantic_score,
     hybrid_score |-> (alpha100 * semantic_score + (100 - alpha100) * keyword_score) \div 100]

\* the scores of one chunk for a query, before ranking
ScoreChunk(k, query_set, query_vector, alpha100) ==
    RetrievalHit(chunks[k],
                 KeywordScore(query_set, SeqSet(chunk_tokens[k])),
                 cosine_similarity(query_vector, chunk_vectors[k]),
                 alpha100)

\* search: the hit of every chunk, in corpus order
ScoreAll(query_tokens, alpha100) ==
    [k \in DOMAIN chunk_vectors |->
        ScoreChunk(k, SeqSet(query_tokens), _tfidf_vector(query_tokens), alpha100)]

\* a filter that asks for more than half of the full score
PositiveHit_StrongOnly(h) == 2 * h.hybrid_score > ScoreScale

\* a filter that keeps the chunks without any match
PositiveHit_ZeroToo(h) == h.hybrid_score >= 0

\* search: `if hybrid_score <= 0: continue`
PositiveHit(h) == h.hybrid_score > 0

\* search: hits.sort(key=(hybrid_score, semantic_score, year), reverse=True)[:top_k]
RankHits(hits, top_k) ==
    Take(Items(SortDesc([i \in 1..Len(hits) |->
                           [key |-> <<hits[i].hybrid_score, hits[i].semantic_score,
                                      hits[i].chunk.year>>,
                            item |-> hits[i]]])),
         top_k)

\* HybridRetriever.search
search(query, top_k, alpha100) ==
    RankHits(SelectSeq(ScoreAll(tokenize(query), alpha100), PositiveHit), top_k)

\* round(x, 4) of a score
Round4(x) == (x + ((ScoreScale \div DictScale) \div 2)) \div (ScoreScale \div DictScale)

\* RetrievalHit.to_dict
to_dict(hit) ==
    [chunk_id |-> hit.chunk.chunk_id,
     paper_id |-> hit.chunk.paper_id,
     title |-> hit.chunk.title,
     year |-> hit.chunk.year,
     section |-> hit.chunk.section,
     stance |-> hit.chunk.stance,
     keyword_score |-> Round4(hit.keyword_score),
     semantic_score |-> Round4(hit.semantic_score),
     hybrid_score |-> Round4(hit.hybrid_score)]

\* dict.get(key, default) on a record
Get(d, k, default) == IF k \in DOMAIN d THEN d[k] ELSE default

\* a variable that holds no dict yet
Absent == [absent |-> TRUE]

\* most_common with citations of equal count in reverse insertion order
top_citations_latest_first(mem, limit) ==
    Take(Items(SortDesc([i \in 1..Len(mem.citation_counter) |->
                           [key |-> <<mem.citation_counter[i].count, i>>,
                            item |-> mem.citation_counter[i].key]])),
         limit)

\* ContextMemory.top_citations: Counter.most_common(limit), by count
\* descending, ties in insertion order
top_citations(mem, limit) ==
    LET keyed == [i \in 1..Len(mem.citation_counter) |->
                    [key |-> <<mem.citation_counter[i].count>>,
                     item |-> mem.citation_counter[i].key]]
    IN Take(Items(SortDesc(keyed)), limit)

(***************************************************************************)
(* ToolExecutor (tools.py).                                                *)
(***************************************************************************)
RetrievalAlpha == 55      \* Settings.retrieval_alpha = 0.55, at scale 100
TopK == 6                 \* Settings.top_k
ToolDefaultTopK == 6      \* kwargs.get("top_k", 6)
TimelineMinTopK == 10     \* max(top_k, 10)

\* self.paper_index.get(paper_id)
paper_index(paper_id) ==
    IF \E i \in 1..Len(papers) : papers[i].paper_id = paper_id
    THEN papers[CHOOSE i \in 1..Len(papers) : papers[i].paper_id = paper_id]
    ELSE Absent

\* ToolExecutor.__init__: cited_by_index[cited] lists, in corpus order, the
\* papers whose citations hold `cited` (once per occurrence); only known ids
\* become keys.
RECURSIVE CitedByFrom(_, _)
CitedByFrom(cited, i) ==
    IF i > Len(papers) THEN <<>>
    ELSE [j \in 1..Occurrences(papers[i].citations, cited) |-> papers[i].paper_id]
         \o CitedByFrom(cited, i + 1)

cited_by_index ==
    LET keys == {c \in UNION {SeqSet(papers[i].citations) : i \in 1..Len(papers)} :
                    paper_index(c) # Absent}
    IN [c \in keys |-> CitedByFrom(c, 1)]

\* f"[{paper_id}] {title} ({year})"
PaperCitation(item) == <<item.paper_id, item.title, item.year>>
\* f"[{cid}] cited relation"
RelationCitation(cid) == <<cid, "cited relation">>

\* [hit.to_dict() for hit in hits]
Serialize(hits) == [i \in 1..Len(hits) |-> to_dict(hits[i])]

\* an ambiguity signal that counts hits instead of papers
HybridObservation_CountsHits(query, serialized) ==
    [tool |-> "hybrid_search",
     query |-> query,
     hits |-> serialized,
     citations |-> [i \in 1..Len(serialized) |-> PaperCitation(serialized[i])],
     ambiguity |->
        [low_coverage |-> Len(serialized) < 2,
         conflicting_stances |->
            Cardinality({serialized[i].stance : i \in 1..Len(serialized)}) > 1]]

\* hybrid_search: the observation built from the serialized hits
HybridObservation(query, serialized) ==
    [tool |-> "hybrid_search",
     query |-> query,
     hits |-> serialized,
     citations |-> [i \in 1..Len(serialized) |-> PaperCitation(serialized[i])],
     ambiguity |->
        [low_coverage |->
            Cardinality({serialized[i].paper_id : i \in 1..Len(serialized)}) < 2,
         conflicting_stances |->
            Cardinality({serialized[i].stance : i \in 1..Len(serialized)}) > 1]]

\* ToolExecutor.hybrid_search on a retriever built with alpha
HybridSearchOn(alpha100, query, top_k) ==
    HybridObservation(query, Serialize(search(query, top_k, alpha100)))

\* ToolExecutor.hybrid_search of the agent's tools
hybrid_search(query, top_k) == HybridSearchOn(RetrievalAlpha, query, top_k)

\* a timeline that puts the latest year first
TimelineSlice_NewestFirst(serialized, top_k) ==
    Take(Items(SortDesc([i \in 1..Len(serialized) |->
                           [key |-> <<serialized[i].year>>, item |-> serialized[i]]])),
         top_k)

\* timeline_scan: serialized.sort(key=year)[:top_k]
TimelineSlice(serialized, top_k) ==
    Take(Items(SortAsc([i \in 1..Len(serialized) |->
                          [key |-> <<serialized[i].year>>, item |-> serialized[i]]])),
         top_k)

\* timeline_scan: the observation built from the sliced hits
TimelineObservation(query, sliced) ==
    [tool |-> "timeline_scan",
     query |-> query,
     hits |-> sliced,
     citations |-> [i \in 1..Len(sliced) |-> PaperCitation(sliced[i])],
     ambiguity |-> [low_coverage |-> Len(sliced) < 2, conflicting_stances |-> FALSE]]

\* ToolExecutor.timeline_scan on a retriever built with alpha
TimelineScanOn(alpha100, query, top_k) ==
    TimelineObservation(
        query,
        TimelineSlice(Serialize(search(query, Max(top_k, TimelineMinTopK), alpha100)),
                      top_k))

\* ToolExecutor.timeline_scan of the agent's tools
timeline_scan(query, top_k) == TimelineScanOn(RetrievalAlpha, query, top_k)

\* citation_graph: the observation for a paper of the corpus
GraphObservation(paper, incoming) ==
    [tool |-> "citation_graph",
     paper_id |-> paper.paper_id,
     title |-> paper.title,
     year |-> paper.year,
     outgoing |-> paper.citations,
     incoming |-> incoming,
     citations |-> <<PaperCitation(paper)>>
                   \o [i \in 1..(Len(paper.citations) + Len(incoming)) |->
                         RelationCitation((paper.citations \o incoming)[i])],
     ambiguity |-> [low_coverage |-> Len(paper.citations) + Len(incoming) < 2,
                    conflicting_stances |-> FALSE]]

\* a miss reported as a well-covered result
GraphNotFound_HighCoverage(paper_id) ==
    [tool |-> "citation_graph",
     paper_id |-> paper_id,
     error |-> "paper not found",
     citations |-> <<>>,
     ambiguity |-> [low_coverage |-> FALSE, conflicting_stances |-> FALSE]]

\* citation_graph: the observation for an unknown paper id
GraphNotFound(paper_id) ==
    [tool |-> "citation_graph",
     paper_id |-> paper_id,
     error |-> "paper not found",
     citations |-> <<>>,
     ambiguity |-> [low_coverage |-> TRUE, conflicting_stances |-> FALSE]]

\* citation_graph: the two branches on the looked-up paper
GraphOf(paper_id, paper, incoming) ==
    IF paper = Absent THEN GraphNotFound(paper_id) ELSE GraphObservation(paper, incoming)

\* ToolExecutor.citation_graph
citation_graph(paper_id) ==
    GraphOf(paper_id, paper_index(paper_id), Get(cited_by_index, paper_id, <<>>))

\* a dispatch that sends every unknown tool name to hybrid_search
ToolRun_UnknownAsSearch(tool_name, kwargs) ==
    CASE tool_name = "timeline_scan" ->
            timeline_scan(Get(kwargs, "query", <<>>), Get(kwargs, "top_k", ToolDefaultTopK))
      [] tool_name = "citation_graph" ->
            citation_graph(Get(kwargs, "paper_id", ""))
      [] OTHER ->
            hybrid_search(Get(kwargs, "query", <<>>), Get(kwargs, "top_k", ToolDefaultTopK))

\* ToolExecutor.run
ToolRun(tool_name, kwargs) ==
    CASE tool_name = "hybrid_search" ->
            hybrid_search(Get(kwargs, "query", <<>>), Get(kwargs, "top_k", ToolDefaultTopK))
      [] tool_name = "timeline_scan" ->
            timeline_scan(Get(kwargs, "query", <<>>), Get(kwargs, "top_k", ToolDefaultTopK))
      [] tool_name = "citation_graph" ->
            citation_graph(Get(kwargs, "paper_id", ""))
      [] OTHER -> [tool |-> tool_name, error |-> "unknown tool"]

(***************************************************************************)
(* ResearchPaperAgent (agent.py).                                          *)
(***************************************************************************)
EvidenceLimit == 8        \* sorted(...)[:8]
CitationLimit == 8        \* top_citations(limit=8)
TraceTopHits == 3         \* hits[:3] in _compact_observation
PreviewHits == 2          \* observation.get("hits", [])[:2]

\* json.dumps(value): the content string of an event is the serialized value;
\* it is kept as a one-piece string holding the value.
JsonDumps(value) == <<value>>

\* the arguments _run_step passes to tools.run
\* arguments that take the sub-question even when a query is given
StepArgs_SubQuestionFirst(stp, lastPrimary) ==
    LET args0 == Get(stp, "tool_args", <<>>)
        args1 == IF Get(stp, "sub_question", <<>>) # <<>>
                 THEN [k \in DOMAIN args0 \cup {"query"} |->
                          IF k = "query" THEN stp.sub_question ELSE args0[k]]
                 ELSE args0
    IN IF "top_k" \in DOMAIN args1 THEN args1
       ELSE [k \in DOMAIN args1 \cup {"top_k"} |->
                IF k = "top_k" THEN TopK ELSE args1[k]]

StepArgs(stp, lastPrimary) ==
    LET tool == Get(stp, "tool", "hybrid_search")
        args0 == Get(stp, "tool_args", <<>>)
        args1 == IF "query" \notin DOMAIN args0 /\ Get(stp, "sub_question", <<>>) # <<>>
                 THEN [k \in DOMAIN args0 \cup {"query"} |->
                          IF k = "query" THEN stp.sub_question ELSE args0[k]]
                 ELSE args0
        args2 == IF "top_k" \in DOMAIN args1 THEN args1
                 ELSE [k \in DOMAIN args1 \cup {"top_k"} |->
                          IF k = "top_k" THEN TopK ELSE args1[k]]
    IN IF tool = "citation_graph" /\ Get(args2, "paper_id", None) \in {None, "", "auto"}
       THEN [k \in DOMAIN args2 \cup {"paper_id"} |->
                IF k = "paper_id"
                THEN (IF lastPrimary \notin {None, ""} THEN lastPrimary ELSE papers[1].paper_id)
                ELSE args2[k]]
       ELSE args2

\* ResearchPaperAgent._run_step: the observation
_run_step(stp, lastPrimary) ==
    ToolRun(Get(stp, "tool", "hybrid_search"), StepArgs(stp, lastPrimary))

\* a _run_step that fills the defaults into the step's own tool_args
StepAfterRun_InPlace(stp, lastPrimary) ==
    [k \in DOMAIN stp \cup {"tool_args"} |->
        IF k = "tool_args" THEN StepArgs(stp, lastPrimary) ELSE stp[k]]

\* _run_step: `args = dict(step.get("tool_args", {}))` is a copy, so the step
\* the loop goes on with is the step as it was popped
StepAfterRun(stp, lastPrimary) == stp

\* the values self.last_primary_paper takes
PrimaryValues == {None} \cup {papers[i].paper_id : i \in 1..Len(papers)}

\* an update that forgets the primary paper after a step without hits
PrimaryAfter_ResetOnMiss(obs, lastPrimary) ==
    LET hits == Get(obs, "hits", <<>>)
    IN IF hits # <<>> THEN hits[1].paper_id ELSE None

\* ResearchPaperAgent._run_step: self.last_primary_paper afterwards
PrimaryAfter(obs, lastPrimary) ==
    LET hits == Get(obs, "hits", <<>>)
    IN IF hits # <<>> THEN hits[1].paper_id ELSE lastPrimary

\* pooled_hits is a dict in insertion order: a sequence of hits, keyed by chunk_id
PoolGet(pool, chunk_id) ==
    IF \E i \in 1..Len(pool) : pool[i].chunk_id = chunk_id
    THEN pool[CHOOSE i \in 1..Len(pool) : pool[i].chunk_id = chunk_id]
    ELSE Absent

PoolSet(pool, hit) ==
    IF \E i \in 1..Len(pool) : pool[i].chunk_id = hit.chunk_id
    THEN [i \in 1..Len(pool) |-> IF pool[i].chunk_id = hit.chunk_id THEN hit ELSE pool[i]]
    ELSE Append(pool, hit)

\* the merge that lets the latest hit of a chunk win
MergeHit_LastWins(pool, hit) == PoolSet(pool, hit)

\* the merge that also replaces on an equal score
MergeHit_ReplaceOnTie(pool, hit) ==
    LET current == PoolGet(pool, hit.chunk_id)
    IN IF current = Absent THEN PoolSet(pool, hit)
       ELSE IF hit.hybrid_score >= current.hybrid_score THEN PoolSet(pool, hit)
       ELSE pool

\* run: the body of `for hit in observation.get("hits", [])`
MergeHit(pool, hit) ==
    LET current == PoolGet(pool, hit.chunk_id)
    IN IF current = Absent THEN PoolSet(pool, hit)
       ELSE IF hit.hybrid_score > current.hybrid_score THEN PoolSet(pool, hit)
       ELSE pool

\* run: the whole merge loop over one observation
RECURSIVE MergeHits(_, _)
MergeHits(pool, hits) ==
    IF hits = <<>> THEN pool
    ELSE TheOne({MergeHits(p, Tail(hits)) : p \in {MergeHit(pool, Head(hits))}})

\* the first hits of the pool in the order they were pooled
SelectEvidence_PoolOrder(pool) == Take(pool, EvidenceLimit)

\* run: evidence = sorted(pooled_hits.values(), key=(hybrid_score, year), reverse=True)[:8]
SelectEvidence(pool) ==
    Take(Items(SortDesc([i \in 1..Len(pool) |->
                           [key |-> <<pool[i].hybrid_score, pool[i].year>>, item |-> pool[i]]])),
         EvidenceLimit)

\* ResearchPaperAgent._compact_observation
_compact_observation(obs) ==
    LET hits == Get(obs, "hits", <<>>)
        top == Take(hits, TraceTopHits)
        base == [tool |-> Get(obs, "tool", None),
                 ambiguity |-> Get(obs, "ambiguity", [k \in {} |-> FALSE]),
                 citation_count |-> Len(Get(obs, "citations", <<>>)),
                 hit_count |-> Len(hits),
                 top_hits |-> [i \in 1..Len(top) |->
                                 [paper_id |-> top[i].paper_id,
                                  title |-> top[i].title,
                                  year |-> top[i].year,
                                  section |-> top[i].section,
                                  hybrid_score |-> top[i].hybrid_score]]]
    IN IF Get(obs, "tool", None) = "citation_graph"
       THEN [k \in DOMAIN base \cup {"graph"} |->
                IF k = "graph"
                THEN [paper_id |-> Get(obs, "paper_id", None),
                      title |-> Get(obs, "title", <<>>),
                      outgoing_count |-> Len(Get(obs, "outgoing", <<>>)),
                      incoming_count |-> Len(Get(obs, "incoming", <<>>))]
                ELSE base[k]]
       ELSE base

\* run: the compact trace entry of one step
CompactEntry(stp, obs, refl) ==
    [step_id |-> Get(stp, "id", None),
     sub_question |-> Get(stp, "sub_question", <<>>),
     tool |-> Get(stp, "tool", None),
     observation_summary |-> _compact_observation(obs),
     reflection |-> [replan |-> Get(refl, "replan", FALSE),
                     reason |-> Get(refl, "reason", ""),
                     new_steps_count |-> Len(Get(refl, "new_steps", <<>>))]]

(***************************************************************************)
(* The memory specification: a fresh ContextMemory and any sequence of     *)
(* add_event calls.                                                        *)
(***************************************************************************)
MemCitations == {"c1", "c2"}
MemInputs ==
    { [role |-> "planner", content |-> <<"a">>, citations |-> <<>>],
      [role |-> "tool", content |-> <<"b">>, citations |-> <<"c1">>],
      [role |-> "tool", content |-> <<"b", "c">>, citations |-> <<"c2", "c1", "c2">>],
      [role |-> "reflect", content |-> <<"d">>, citations |-> <<"c2">>] }

\* no run() call has been made
NoRun ==
    /\ max_iterations = 0
    /\ plan = Absent
    /\ steps = <<>>
    /\ iteration = 0
    /\ step = Absent
    /\ observation = Absent
    /\ reflection = Absent
    /\ executed_count = 0
    /\ expected_total_steps = 0
    /\ pooled_hits = <<>>
    /\ execution_trace = <<>>
    /\ last_primary_paper = None
    /\ evidence = <<>>
    /\ summarize_calls = <<>>
    /\ result = Absent
    /\ executed = <<>>
    /\ observed = <<>>
    /\ next_uid = 0
    /\ run_no = 0
    /\ emitted = <<>>
    /\ run_state = Absent
    /\ reflect_calls = <<>>
    /\ include_full_trace = FALSE
    /\ full_trace = <<>>
    /\ reader = Absent

NoRegistry == registry = Absent

\* no engine is under study: the tables are the ones built from the corpus
NoEngine == engine = Absent /\ tool_call = Absent

AgentIdle ==
    /\ pc = "memory_only"
    /\ client = None
    /\ grok_live = FALSE
    /\ grok_calls = <<>>
    /\ NoRun
    /\ NoRegistry
    /\ NoEngine

MemInit ==
    /\ AgentIdle
    /\ \E me \in 0..MaxEventsBound, cb \in 1..MaxBatchBound :
          memory = NewContextMemory(me, cb)
    /\ add_log = <<>>

AddEventCall(in) ==
    /\ Len(add_log) < MaxAdds
    /\ memory' = add_event(memory, in.role, in.content, in.citations)
    /\ add_log' = Append(add_log, in.citations)
    /\ UNCHANGED agentVars

MemNext == \E in \in MemInputs : AddEventCall(in)

MemSpec == MemInit /\ [][MemNext]_vars

(***************************************************************************)
(* The registry entry of an asynchronous run (server.py, _run_agent_async). *)
(* The entry keeps status, error, result, progress and execution_trace;     *)
(* the progress message is a function of the stage and the timestamps are   *)
(* left out.                                                                *)
(***************************************************************************)
\* worker, lines 228-238: the entry once the worker has started
RunningState ==
    [status |-> "running",
     error |-> "",
     result |-> Absent,
     progress |-> [stage |-> "starting", step_index |-> 0, total_steps |-> 0],
     execution_trace |-> <<>>]

\* progress_callback, lines 186-225, on the entry of a run that is registered
\* a progress_callback that records the stage and leaves the trace entry out
progress_callback_DropsTrace(state, event) ==
    [state EXCEPT
        !.progress = [stage |-> Get(event, "stage", "running"),
                      step_index |-> Get(event, "step_index", state.progress.step_index),
                      total_steps |-> Get(event, "total_steps", state.progress.total_steps)]]

progress_callback(state, event) ==
    [state EXCEPT
        !.progress = [stage |-> Get(event, "stage", "running"),
                      step_index |-> Get(event, "step_index", state.progress.step_index),
                      total_steps |-> Get(event, "total_steps", state.progress.total_steps)],
        !.execution_trace = IF Get(event, "stage", "running") = "step_finished"
                               /\ "trace_entry" \in DOMAIN event
                            THEN Append(state.execution_trace, event.trace_entry)
                            ELSE state.execution_trace]

\* emit() on each event of a list, in order
RECURSIVE EmitAll(_, _)
EmitAll(state, events) ==
    IF events = <<>> THEN state
    ELSE TheOne({EmitAll(st, Tail(events)) : st \in {progress_callback(state, Head(events))}})

\* a failure that leaves the entry as it was
WorkerFailed_Unrecorded(state) == state

\* worker, lines 247-261: agent.run raised
WorkerFailed(state) ==
    [state EXCEPT !.status = "failed",
                  !.error = "agent failed",
                  !.progress = [stage |-> "failed",
                                step_index |-> state.progress.step_index,
                                total_steps |-> state.progress.total_steps]]

\* worker, lines 263-275: agent.run returned res
WorkerCompleted(state, res) ==
    [state EXCEPT !.status = "completed",
                  !.result = res,
                  !.progress = [stage |-> "completed",
                                step_index |-> state.progress.step_index,
                                total_steps |-> state.progress.total_steps]]

\* run: the events of the emit calls (the fields progress_callback and the
\* registry read; step_id, sub_question, tool and plan_steps are left out)
EvPlanning == [stage |-> "planning"]
EvPlanned(total) == [stage |-> "planned", total_steps |-> total]
\* a step_started event that numbers the step one ahead
EvStepStarted_OneAhead(index, total) ==
    [stage |-> "step_started", step_index |-> index + 1, total_steps |-> total]

EvStepStarted(index, total) ==
    [stage |-> "step_started", step_index |-> index, total_steps |-> total]
EvStepFinished(index, total, compact) ==
    [stage |-> "step_finished", step_index |-> index, total_steps |-> total,
     trace_entry |-> compact]
EvReplanned(added, total) ==
    [stage |-> "replanned", added_steps |-> added, total_steps |-> total]
EvSummarizing(count, executedSteps) ==
    [stage |-> "summarizing", evidence_count |-> count, executed_steps |-> executedSteps]
EvDone(executedSteps, total) ==
    [stage |-> "done", executed_steps |-> executedSteps, total_steps |-> total]

\* the events of one reflected step with the replanned event given first
ReflectEvents_ReplannedFirst(index, total, compact, added) ==
    IF added > 0
    THEN <<EvReplanned(added, total + added), EvStepFinished(index, total, compact)>>
    ELSE <<EvStepFinished(index, total, compact)>>

\* run, lines 222-244: step_finished, then replanned when steps were added
ReflectEvents(index, total, compact, added) ==
    IF added > 0
    THEN <<EvStepFinished(index, total, compact), EvReplanned(added, total + added)>>
    ELSE <<EvStepFinished(index, total, compact)>>

\* a reflect call that is handed no observation
ReflectCall_NoObservation(stp, obs) == [step |-> stp, observation |-> Absent]

\* run, lines 205-207: the arguments of grok.reflect
ReflectCall(stp, obs) == [step |-> stp, observation |-> obs]

(***************************************************************************)
(* The run specification: one agent after construction and one call of     *)
(* run().  The Reasoning Service (the grok_client of the agent) chooses    *)
(* the plan, every reflection and the summary, or fails.                   *)
(***************************************************************************)
MaxIterations == 2       \* Settings.max_iterations ranges over 0..MaxIterations
MaxPlanLen == 2          \* steps of a plan
MemoryWindow == 3        \* Settings.memory_window of the modelled agent

Query1 == <<"hybrid", "retrieval">>
Query2 == <<"recall", "graph">>
Query3 == <<"Hybrid", "index", "?">>

StepSearch ==
    [id |-> "s1", sub_question |-> Query1, tool |-> "hybrid_search",
     tool_args |-> [query |-> Query3, top_k |-> 2]]
StepDefault == [id |-> "s2", sub_question |-> Query1]
StepTimeline ==
    [id |-> "s3", sub_question |-> Query2, tool |-> "timeline_scan",
     tool_args |-> [query |-> Query2, top_k |-> 3]]
StepGraphAuto ==
    [id |-> "s4", sub_question |-> <<"lineage">>, tool |-> "citation_graph",
     tool_args |-> [paper_id |-> "auto"]]
StepGraphMissing ==
    [id |-> "s5", sub_question |-> <<>>, tool |-> "citation_graph",
     tool_args |-> [paper_id |-> "P9"]]
StepUnknown ==
    [id |-> "s6", sub_question |-> Query2, tool |-> "web_search",
     tool_args |-> [query |-> Query2]]

StepKinds == {StepSearch, StepDefault, StepTimeline, StepGraphAuto, StepGraphMissing,
              StepUnknown}

SeqsUpTo(S, n) == UNION {[1..k -> S] : k \in 0..n}

\* the steps a plan is made of; the reflections bring the other kinds
PlanKinds == {StepSearch, StepDefault, StepUnknown, StepGraphMissing}

\* what grok.plan may return
Plans ==
    {[objective |-> "q", steps |-> ss] : ss \in SeqsUpTo(PlanKinds, MaxPlanLen)}
    \cup {[objective |-> "q"]}

\* what grok.reflect may return
NewStepLists == {<<>>, <<StepTimeline>>, <<StepGraphAuto, StepSearch>>, <<StepUnknown>>}
Reflections ==
    {[replan |-> TRUE, reason |-> "r", new_steps |-> ns] : ns \in NewStepLists}
    \cup {[replan |-> FALSE, reason |-> "r", new_steps |-> ns] : ns \in {<<>>, <<StepTimeline>>}}
    \cup {[replan |-> TRUE, reason |-> "r"]}

\* what grok.summarize may return
Summaries == {[answer |-> "a", evidence_points |-> <<>>, risks |-> <<>>]}

Clients == {"injected", "GrokClient"}

\* _run_step on every step dict of the model, evaluated once
RunStepTable == [k \in StepKinds |-> [lp \in PrimaryValues |-> _run_step(k, lp)]]

\* the queue entries made from a list of step dicts: uid numbers the entries in
\* order of creation, born is the number of steps executed when they were queued
Entries(stepDicts, firstUid, born) ==
    [i \in 1..Len(stepDicts) |->
        [uid |-> firstUid + i - 1, born |-> born, step |-> stepDicts[i]]]

InitRun ==
    /\ pc = "start"
    /\ client \in Clients
    /\ grok_live \in (IF client = "GrokClient" THEN BOOLEAN ELSE {FALSE})
    /\ grok_calls = <<>>
    /\ run_no = 1
    /\ emitted = <<>>
    /\ run_state = RunningState
    /\ reflect_calls = <<>>
    /\ max_iterations \in 0..MaxIterations
    /\ memory = NewContextMemory(MemoryWindow, DefaultCompressBatch)
    /\ add_log = <<>>
    /\ plan = Absent
    /\ steps = <<>>
    /\ iteration = 0
    /\ step = Absent
    /\ observation = Absent
    /\ reflection = Absent
    /\ executed_count = 0
    /\ expected_total_steps = 0
    /\ pooled_hits = <<>>
    /\ execution_trace = <<>>
    /\ last_primary_paper = None
    /\ evidence = <<>>
    /\ summarize_calls = <<>>
    /\ result = Absent
    /\ executed = <<>>
    /\ observed = <<>>
    /\ next_uid = 0
    /\ full_trace = <<>>
    /\ reader = Absent
    /\ registry = Absent
    /\ NoEngine

\* a run() call without include_full_trace on a freshly constructed agent
Init == InitRun /\ include_full_trace = FALSE

\* a plan without steps replaced by a canned plan
PlanSteps_DefaultOnEmpty(p) ==
    IF Get(p, "steps", <<>>) = <<>> THEN <<StepTimeline, StepSearch>> ELSE p.steps

\* run, line 145: steps = list(plan.get("steps", []))
PlanSteps(p) == Get(p, "steps", <<>>)

\* run, lines 137-166: grok.plan returns p
Plan(p) ==
    /\ pc = "start"
    /\ client = "injected"
    /\ plan' = p
    /\ steps' = Entries(PlanSteps(p), 1, 0)
    /\ next_uid' = Len(PlanSteps(p))
    /\ memory' = add_event(memory, "planner", JsonDumps(p), <<>>)
    /\ add_log' = Append(add_log, <<>>)
    /\ execution_trace' = <<>>
    /\ pooled_hits' = <<>>
    /\ executed_count' = 0
    /\ expected_total_steps' = Len(PlanSteps(p))
    /\ iteration' = 0
    /\ \E events \in {<<EvPlanning, EvPlanned(Len(PlanSteps(p)))>>} :
          /\ emitted' = emitted \o events
          /\ run_state' = EmitAll(run_state, events)
    /\ pc' = "loop"
    /\ UNCHANGED <<client, grok_live, grok_calls, include_full_trace, full_trace,
                   engine, tool_call, reader, registry, run_no, max_iterations, step, observation, reflection,
                   last_primary_paper, evidence, summarize_calls, result, executed, observed,
                   reflect_calls>>

\* run, line 139: the plan call raises.  GrokClient.plan (grok.py:113) takes no
\* orchestration_profile keyword, so the call of line 139 always raises on it.
PlanFails ==
    /\ pc = "start"
    /\ emitted' = Append(emitted, EvPlanning)
    /\ run_state' = WorkerFailed(progress_callback(run_state, EvPlanning))
    /\ pc' = "failed"
    /\ UNCHANGED <<client, grok_live, grok_calls, include_full_trace, full_trace,
                   engine, tool_call, reader, registry, run_no, max_iterations, memory, add_log, plan, steps, iteration, step,
                   observation, reflection, executed_count, expected_total_steps, pooled_hits,
                   execution_trace, last_primary_paper, evidence, summarize_calls,
                   result, executed, observed, next_uid, reflect_calls>>

\* the first step is read but left on the queue
PopRest_KeepHead(queue) == queue

\* run, line 172: the queue after steps.pop(0)
PopRest(queue) == Tail(queue)

\* the loop that runs one iteration too many
LoopContinues_OffByOne(iter, maxIter, queue) == iter <= maxIter /\ queue # <<>>

\* run, lines 168-170: `for _ in range(max_iterations)` has an iteration left
\* and the queue is not empty
LoopContinues(iter, maxIter, queue) == iter < maxIter /\ queue # <<>>

\* run, lines 168-203: one iteration up to the tool event
ExecuteStep ==
    /\ pc = "loop"
    /\ LoopContinues(iteration, max_iterations, steps)
    /\ \E entry \in {Head(steps)} :
       \E obs \in {RunStepTable[entry.step][last_primary_paper]} :
          /\ step' = StepAfterRun(entry.step, last_primary_paper)
          /\ tool_call' = [n |-> executed_count + 1, run |-> run_no,
                           tool |-> Get(entry.step, "tool", "hybrid_search"),
                           args |-> StepArgs(entry.step, last_primary_paper),
                           result |-> obs]
          /\ steps' = PopRest(steps)
          /\ executed' = Append(executed, entry)
          /\ observation' = obs
          /\ observed' = Append(observed, obs)
          /\ last_primary_paper' = PrimaryAfter(obs, last_primary_paper)
          /\ pooled_hits' = MergeHits(pooled_hits, Get(obs, "hits", <<>>))
          /\ memory' = add_event(memory, "tool",
                                 JsonDumps([step_id |-> Get(entry.step, "id", None),
                                            tool |-> Get(entry.step, "tool", None),
                                            sub_question |-> Get(entry.step, "sub_question", <<>>),
                                            result_preview |->
                                                Take(Get(obs, "hits", <<>>), PreviewHits)]),
                                 Get(obs, "citations", <<>>))
          /\ add_log' = Append(add_log, Get(obs, "citations", <<>>))
    /\ iteration' = iteration + 1
    /\ executed_count' = executed_count + 1
    /\ \E event \in {EvStepStarted(executed_count + 1, expected_total_steps)} :
          /\ emitted' = Append(emitted, event)
          /\ run_state' = progress_callback(run_state, event)
    /\ pc' = "reflecting"
    /\ UNCHANGED <<client, grok_live, grok_calls, include_full_trace, full_trace,
                   engine, reader, registry, run_no, max_iterations, plan, reflection, expected_total_steps,
                   execution_trace, evidence, summarize_calls, result, next_uid,
                   reflect_calls>>

\* new steps appended behind the queued ones
Replan_Append(queue, refl, firstUid, born) ==
    IF Get(refl, "replan", FALSE) /\ Get(refl, "new_steps", <<>>) # <<>>
    THEN queue \o Entries(refl.new_steps, firstUid, born)
    ELSE queue

\* run, lines 234-237: the queue after a reflection
Replan(queue, refl, firstUid, born) ==
    IF Get(refl, "replan", FALSE) /\ Get(refl, "new_steps", <<>>) # <<>>
    THEN Entries(refl.new_steps, firstUid, born) \o queue
    ELSE queue

\* run, lines 230-233: `if include_full_trace: full_trace.append(...)`
FullTraceAfter(trace, include, stp, obs, refl) ==
    IF include THEN Append(trace, [step |-> stp, observation |-> obs, reflection |-> refl])
    ELSE trace

\* run, lines 205-244: grok.reflect returns r; the rest of the iteration
Reflect(r) ==
    /\ pc = "reflecting"
    /\ reflection' = r
    /\ memory' = add_event(memory, "reflect", JsonDumps(r), <<>>)
    /\ add_log' = Append(add_log, <<>>)
    /\ reflect_calls' = Append(reflect_calls, ReflectCall(step, observation))
    /\ steps' = Replan(steps, r, next_uid + 1, executed_count)
    /\ \E compact \in {CompactEntry(step, observation, r)} :
       \E events \in {ReflectEvents(executed_count, expected_total_steps, compact,
                                    Len(steps') - Len(steps))} :
          /\ execution_trace' = Append(execution_trace, compact)
          /\ emitted' = emitted \o events
          /\ run_state' = EmitAll(run_state, events)
    /\ next_uid' = next_uid + (Len(steps') - Len(steps))
    /\ expected_total_steps' = expected_total_steps + (Len(steps') - Len(steps))
    /\ full_trace' = FullTraceAfter(full_trace, include_full_trace, step, observation, r)
    /\ pc' = "loop"
    /\ UNCHANGED <<client, grok_live, grok_calls, include_full_trace,
                   engine, tool_call, reader, registry, run_no, max_iterations, plan, iteration, step, observation,
                   executed_count, pooled_hits, last_primary_paper, evidence,
                   summarize_calls, result, executed, observed>>

\* run, line 205: the reflect call raises
ReflectFails ==
    /\ pc = "reflecting"
    /\ reflect_calls' = Append(reflect_calls, ReflectCall(step, observation))
    /\ run_state' = WorkerFailed(run_state)
    /\ pc' = "failed"
    /\ UNCHANGED <<client, grok_live, grok_calls, include_full_trace, full_trace,
                   engine, tool_call, reader, registry, run_no, max_iterations, memory, add_log, plan, steps, iteration, step,
                   observation, reflection, executed_count, expected_total_steps, pooled_hits,
                   execution_trace, last_primary_paper, evidence, summarize_calls,
                   result, executed, observed, next_uid, emitted>>

\* leaving the loop at the ceiling with steps still queued discards the pool
LeaveLoop_DropsPartial ==
    /\ pc = "loop"
    /\ ~LoopContinues(iteration, max_iterations, steps)
    /\ evidence' = IF steps # <<>> THEN <<>> ELSE SelectEvidence(pooled_hits)
    /\ \E event \in {EvSummarizing(Len(evidence'), executed_count)} :
          /\ emitted' = Append(emitted, event)
          /\ run_state' = progress_callback(run_state, event)
    /\ pc' = "summarizing"
    /\ UNCHANGED <<client, grok_live, grok_calls, include_full_trace, full_trace,
                   engine, tool_call, reader, registry, run_no, max_iterations, memory, add_log, plan, steps, iteration, step,
                   observation, reflection, executed_count, expected_total_steps, pooled_hits,
                   execution_trace, last_primary_paper, summarize_calls,
                   result, executed, observed, next_uid, reflect_calls>>

\* run, lines 168-170 and 246-257: the loop is left, the evidence is selected
LeaveLoop ==
    /\ pc = "loop"
    /\ ~LoopContinues(iteration, max_iterations, steps)
    /\ evidence' = SelectEvidence(pooled_hits)
    /\ \E event \in {EvSummarizing(Len(evidence'), executed_count)} :
          /\ emitted' = Append(emitted, event)
          /\ run_state' = progress_callback(run_state, event)
    /\ pc' = "summarizing"
    /\ UNCHANGED <<client, grok_live, grok_calls, include_full_trace, full_trace,
                   engine, tool_call, reader, registry, run_no, max_iterations, memory, add_log, plan, steps, iteration, step,
                   observation, reflection, executed_count, expected_total_steps, pooled_hits,
                   execution_trace, last_primary_paper, summarize_calls,
                   result, executed, observed, next_uid, reflect_calls>>

RunQuery == Query1

\* a result that carries full_trace in every run
RunResult_AlwaysFull(pl, trace, summary, citations, ev, include, full) ==
    [query |-> RunQuery, mode |-> "live", paper_count |-> Len(papers), plan |-> pl,
     execution_trace |-> trace, summary |-> summary, citations |-> citations,
     evidence |-> ev, full_trace |-> full]

\* run, lines 262-274: the result dict (data_path is left out)
RunResult(pl, trace, summary, citations, ev, include, full) ==
    IF include
    THEN [query |-> RunQuery, mode |-> "live", paper_count |-> Len(papers), plan |-> pl,
          execution_trace |-> trace, summary |-> summary, citations |-> citations,
          evidence |-> ev, full_trace |-> full]
    ELSE [query |-> RunQuery, mode |-> "live", paper_count |-> Len(papers), plan |-> pl,
          execution_trace |-> trace, summary |-> summary, citations |-> citations,
          evidence |-> ev]

\* run, lines 258-282: grok.summarize returns s, the result is assembled
Summarize(s) ==
    /\ pc = "summarizing"
    /\ summarize_calls' = Append(summarize_calls, evidence)
    /\ result' = RunResult(plan, execution_trace, s, top_citations(memory, CitationLimit),
                            evidence, include_full_trace, full_trace)
    /\ \E event \in {EvDone(executed_count, expected_total_steps)} :
          /\ emitted' = Append(emitted, event)
          /\ run_state' = WorkerCompleted(progress_callback(run_state, event), result')
    /\ pc' = "done"
    /\ UNCHANGED <<client, grok_live, grok_calls, include_full_trace, full_trace,
                   engine, tool_call, reader, registry, run_no, max_iterations, memory, add_log, plan, steps, iteration, step,
                   observation, reflection, executed_count, expected_total_steps, pooled_hits,
                   execution_trace, last_primary_paper, evidence,
                   executed, observed, next_uid, reflect_calls>>

\* run, line 258: the summarize call raises
SummarizeFails ==
    /\ pc = "summarizing"
    /\ summarize_calls' = Append(summarize_calls, evidence)
    /\ run_state' = WorkerFailed(run_state)
    /\ pc' = "failed"
    /\ UNCHANGED <<client, grok_live, grok_calls, include_full_trace, full_trace,
                   engine, tool_call, reader, registry, run_no, max_iterations, memory, add_log, plan, steps, iteration, step,
                   observation, reflection, executed_count, expected_total_steps, pooled_hits,
                   execution_trace, last_primary_paper, evidence,
                   result, executed, observed, next_uid, emitted, reflect_calls>>

Next ==
    \/ \E p \in Plans : Plan(p)
    \/ PlanFails
    \/ ExecuteStep
    \/ \E r \in Reflections : Reflect(r)
    \/ ReflectFails
    \/ LeaveLoop
    \/ \E s \in Summaries : Summarize(s)
    \/ SummarizeFails

Spec == Init /\ [][Next]_vars

\* the Reasoning Service answers every call it is sent; the loop itself always
\* takes its next step
FairSpec == Spec /\ WF_vars(Next)

(***************************************************************************)
(* Claims about the orchestration loop, checked under Spec and FairSpec.   *)
(***************************************************************************)
\* the pop order known so far: the executed entries, then the queue
PopOrder == executed \o steps

\* every hit of every observation of the run so far
ObservedHits ==
    UNION {SeqSet(Get(observed[i], "hits", <<>>)) : i \in 1..Len(observed)}

BestObservedScore(chunk_id) ==
    CHOOSE m \in {h.hybrid_score : h \in {g \in ObservedHits : g.chunk_id = chunk_id}} :
        \A h \in ObservedHits : h.chunk_id = chunk_id => h.hybrid_score <= m

EveryReflectionReplanned ==
    \A i \in 1..Len(execution_trace) :
        /\ execution_trace[i].reflection.replan
        /\ execution_trace[i].reflection.new_steps_count > 0

\* C1: whatever the plan and the reflections, the number of executed steps never
\* exceeds max_iterations, and in every run in which the Reasoning Service
\* answers its calls the step loop is left and summarization is reached.
C1_LoopTerminatesWithinCeiling ==
    /\ [](executed_count <= max_iterations /\ Len(executed) <= max_iterations)
    /\ ([](pc # "failed") => ((pc = "loop") ~> (pc = "summarizing")))

\* C1 witness: every reflection replanned with new steps, the ceiling stopped
\* the loop with steps still queued.
C1_Witness ==
    /\ pc = "summarizing"
    /\ max_iterations >= 2
    /\ executed_count = max_iterations
    /\ EveryReflectionReplanned
    /\ Len(steps) >= 2

\* C2: once the loop was left with steps still queued, the ceiling was reached,
\* none of the queued steps was executed, the evidence is the best hit per chunk
\* of the executed steps, and a finished run has called summarize exactly once,
\* with that evidence, and returned a result.
C2_CeilingIsHardStop ==
    (pc \in {"summarizing", "done"} /\ steps # <<>>) =>
        /\ iteration = max_iterations
        /\ Len(executed) = max_iterations
        /\ \A i \in 1..Len(steps) : \A j \in 1..Len(executed) : steps[i].uid # executed[j].uid
        /\ SeqSet(evidence) \subseteq ObservedHits
        /\ Len(evidence) = Min(EvidenceLimit, Cardinality({h.chunk_id : h \in ObservedHits}))
        /\ \A i \in 1..Len(evidence) :
              evidence[i].hybrid_score = BestObservedScore(evidence[i].chunk_id)
        /\ (pc = "done" =>
              /\ summarize_calls = <<evidence>>
              /\ result # Absent
              /\ result.evidence = evidence
              /\ Len(result.execution_trace) = max_iterations)

\* C2 witness: a finished run that hit the ceiling with steps queued and has
\* evidence from the executed steps.
C2_Witness ==
    /\ pc = "done"
    /\ steps # <<>>
    /\ max_iterations >= 1
    /\ evidence # <<>>

\* C3: when the plan has no steps, no step is executed, no tool event and no
\* reflection is recorded, and a finished run has called summarize exactly once,
\* with no evidence, and returns an empty execution_trace and empty evidence.
C3_EmptyPlan ==
    (plan # Absent /\ Get(plan, "steps", <<>>) = <<>>) =>
        /\ pc \in {"loop", "summarizing", "done", "failed"}
        /\ executed = <<>>
        /\ executed_count = 0
        /\ observed = <<>>
        /\ reflection = Absent
        /\ Len(add_log) = 1
        /\ execution_trace = <<>>
        /\ (pc = "done" =>
              /\ summarize_calls = << <<>> >>
              /\ result.execution_trace = <<>>
              /\ result.evidence = <<>>)

\* C3 witness: a finished run on a plan with an empty step list, with
\* iterations available.
C3_Witness ==
    /\ pc = "done"
    /\ plan # Absent
    /\ "steps" \in DOMAIN plan
    /\ plan.steps = <<>>
    /\ max_iterations >= 1

\* C4: a reflection with replan set and new steps puts them, in their order, in
\* front of the queue and any other reflection leaves the queue as it is; so a
\* new step is always popped before every step that was queued when it arrived.
C4_ReplanPrepends ==
    /\ [][(pc = "reflecting" /\ pc' = "loop") =>
            IF Get(reflection', "replan", FALSE) /\ Get(reflection', "new_steps", <<>>) # <<>>
            THEN LET n == Len(reflection'.new_steps)
                 IN /\ Len(steps') = n + Len(steps)
                    /\ [i \in 1..n |-> steps'[i].step] = reflection'.new_steps
                    /\ Drop(steps', n) = steps
            ELSE steps' = steps]_vars
    /\ [](\A i \in 1..Len(PopOrder) : \A j \in 1..Len(PopOrder) :
            (i < j) =>
                /\ ~(PopOrder[j].born > PopOrder[i].born /\ i > PopOrder[j].born)
                /\ (PopOrder[j].born = PopOrder[i].born => PopOrder[i].uid < PopOrder[j].uid))

\* C4 witness: a reflection put two new steps in front of a waiting step of the
\* initial plan; the first of them has been executed, the second is next.
C4_Witness ==
    /\ Len(executed) = 2
    /\ executed[1].born = 0
    /\ executed[2].born = 1
    /\ Len(steps) >= 2
    /\ steps[1].born = 1
    /\ executed[2].uid < steps[1].uid
    /\ steps[Len(steps)].born = 0

\* C5: no queue entry is executed twice, a popped entry is never queued again,
\* and after planning the queue only changes by popping its head or by a
\* reflection putting fresh entries in front.
C5_StepExecutedAtMostOnce ==
    /\ [](\A i \in 1..Len(PopOrder) : \A j \in 1..Len(PopOrder) :
            i # j => PopOrder[i].uid # PopOrder[j].uid)
    /\ [][(pc # "start" /\ steps' # steps) =>
            \/ /\ pc = "loop"
               /\ steps # <<>>
               /\ steps' = Tail(steps)
               /\ executed' = Append(executed, Head(steps))
            \/ /\ pc = "reflecting"
               /\ executed' = executed
               /\ Len(steps') > Len(steps)
               /\ Drop(steps', Len(steps') - Len(steps)) = steps
               /\ [i \in 1..(Len(steps') - Len(steps)) |-> steps'[i].step]
                    = Get(reflection', "new_steps", <<>>)]_vars

\* C5 witness: a step dict supplied again by a reflection was executed as a
\* second, separate queue entry.
C5_Witness ==
    \E i \in 1..Len(executed) : \E j \in 1..Len(executed) :
        /\ i < j
        /\ executed[i].step = executed[j].step
        /\ executed[j].born > 0

\* C6: after every executed step the pool holds exactly the chunk ids observed
\* so far, each with a hit observed in this run whose hybrid_score is the highest
\* observed for that chunk id; no chunk id leaves the pool and no pooled score
\* drops.
C6_PoolHoldsBestPerChunk ==
    /\ [](pc \in {"loop", "reflecting", "summarizing", "done", "failed"} =>
            /\ {pooled_hits[i].chunk_id : i \in 1..Len(pooled_hits)}
                 = {h.chunk_id : h \in ObservedHits}
            /\ \A i \in 1..Len(pooled_hits) :
                  /\ pooled_hits[i] \in ObservedHits
                  /\ pooled_hits[i].hybrid_score = BestObservedScore(pooled_hits[i].chunk_id)
                  /\ \A j \in 1..Len(pooled_hits) :
                        i # j => pooled_hits[i].chunk_id # pooled_hits[j].chunk_id)
    /\ [][pc # "start" =>
            \A i \in 1..Len(pooled_hits) : \E j \in 1..Len(pooled_hits') :
                /\ pooled_hits'[j].chunk_id = pooled_hits[i].chunk_id
                /\ pooled_hits'[j].hybrid_score >= pooled_hits[i].hybrid_score]_vars

\* C6 witness: the latest observation brought a chunk at a lower score than an
\* earlier observation did, together with a chunk that is new to the pool.
C6_Witness ==
    /\ pc = "reflecting"
    /\ Len(observed) = 2
    /\ \E h \in SeqSet(Get(observation, "hits", <<>>)) :
          h.hybrid_score < BestObservedScore(h.chunk_id)
    /\ \E h \in SeqSet(Get(observation, "hits", <<>>)) :
          \A g \in SeqSet(Get(observed[1], "hits", <<>>)) : g.chunk_id # h.chunk_id

\* hits for the chunks of the pool with an equal or a lower score than the
\* pooled one and otherwise different content
LowerOrEqualVariants(pool) ==
    UNION {{[pool[i] EXCEPT !.hybrid_score = pool[i].hybrid_score - d, !.semantic_score = 0] :
               d \in {0, 1}} : i \in 1..Len(pool)}

\* the observations a step of the model can produce
PossibleObservations ==
    {RunStepTable[k][lp] : k \in StepKinds, lp \in PrimaryValues}

\* C7: merging a hit whose chunk id is pooled with an equal or higher score
\* leaves the pool as it is, and merging an observation a second time gives the
\* pool that merging it once gave.
C7_MergeIdempotent ==
    /\ \A h \in LowerOrEqualVariants(pooled_hits) : MergeHit(pooled_hits, h) = pooled_hits
    /\ \A obs \in PossibleObservations :
          LET hits == Get(obs, "hits", <<>>)
          IN MergeHits(MergeHits(pooled_hits, hits), hits) = MergeHits(pooled_hits, hits)
    /\ (observation # Absent =>
          MergeHits(pooled_hits, Get(observation, "hits", <<>>)) = pooled_hits)

\* C7 witness: the observation just merged held a chunk that was pooled with a
\* higher score, and the pool has several chunks.
C7_Witness ==
    /\ pc = "reflecting"
    /\ Len(pooled_hits) >= 3
    /\ \E h \in SeqSet(Get(observation, "hits", <<>>)) :
          h.hybrid_score < PoolGet(pooled_hits, h.chunk_id).hybrid_score

(***************************************************************************)
(* Claims about ContextMemory, checked under MemSpec.                      *)
(***************************************************************************)
RECURSIVE TotalOccurrences(_, _)
TotalOccurrences(log, x) ==
    IF log = <<>> THEN 0
    ELSE Occurrences(Head(log), x) + TotalOccurrences(Tail(log), x)

CitationsSeen ==
    {memory.citation_counter[i].key : i \in 1..Len(memory.citation_counter)}
    \cup UNION {{add_log[i][j] : j \in 1..Len(add_log[i])} : i \in 1..Len(add_log)}

\* C8: with compress_batch >= 1 (and a cap max_events >= 0), whenever add_event
\* has returned the number of live events is at most max_events.
C8_LiveEventsWithinCap ==
    memory.compress_batch >= 1 => Len(memory.events) <= memory.max_events

\* C8 witness: a compression has happened and the log is full again.
C8_Witness ==
    /\ pc = "memory_only"
    /\ Len(memory.summary) >= 1
    /\ memory.max_events >= 2
    /\ Len(memory.events) = memory.max_events

\* C9 as stated: after N > max_events add_event calls on a fresh memory the
\* live event count equals max_events.
C9_Original ==
    Len(add_log) > memory.max_events => Len(memory.events) = memory.max_events

\* C9 amended: after N > max_events add_event calls on a fresh memory the live
\* event count is at most max_events and more than max_events - compress_batch;
\* it equals max_events when compress_batch = 1.
C9_LiveCountAfterOverflow ==
    Len(add_log) > memory.max_events =>
        /\ Len(memory.events) <= memory.max_events
        /\ Len(memory.events) > memory.max_events - memory.compress_batch
        /\ (memory.compress_batch = 1 => Len(memory.events) = memory.max_events)

\* C9 witness: more additions than the cap, a batch larger than one, and a live
\* count strictly below the cap.
C9_Witness ==
    /\ pc = "memory_only"
    /\ Len(add_log) > memory.max_events
    /\ memory.compress_batch > 1
    /\ Len(memory.events) < memory.max_events

\* C10: the frequency of every citation is the number of its occurrences over
\* all add_event calls so far (it grows by the occurrences in each added event)
\* and no step, compression included, ever lowers it.
C10_CitationCountsMonotone ==
    /\ [](\A c \in CitationsSeen :
            CounterCount(memory.citation_counter, c) = TotalOccurrences(add_log, c))
    /\ [][\A c \in CitationsSeen :
            CounterCount(memory.citation_counter', c)
                >= CounterCount(memory.citation_counter, c)]_vars

\* C10 witness: a citation that occurred twice in one event is counted although
\* no live event carries it any more.
C10_Witness ==
    /\ pc = "memory_only"
    /\ \E c \in CitationsSeen :
          /\ CounterCount(memory.citation_counter, c) >= 3
          /\ \A i \in 1..Len(memory.events) :
                \A j \in 1..Len(memory.events[i].citations) :
                    memory.events[i].citations[j] # c

\* the first add_event call that carried citation c, and its place in that call
FirstCall(c) ==
    CHOOSE i \in 1..Len(add_log) :
        /\ Occurrences(add_log[i], c) > 0
        /\ \A k \in 1..(i - 1) : Occurrences(add_log[k], c) = 0

FirstPlace(c) ==
    CHOOSE j \in 1..Len(add_log[FirstCall(c)]) :
        /\ add_log[FirstCall(c)][j] = c
        /\ \A k \in 1..(j - 1) : add_log[FirstCall(c)][k] # c

\* citation a ranks before citation b: more occurrences over the whole
\* history, or as many and added first
RanksBefore(a, b) ==
    \/ TotalOccurrences(add_log, a) > TotalOccurrences(add_log, b)
    \/ /\ TotalOccurrences(add_log, a) = TotalOccurrences(add_log, b)
       /\ \/ FirstCall(a) < FirstCall(b)
          \/ (FirstCall(a) = FirstCall(b) /\ FirstPlace(a) < FirstPlace(b))

\* C11: top_citations(limit) returns min(limit, number of citations seen)
\* distinct citations, each ranking before the next and before every citation
\* left out, where the rank is the frequency over all add_event calls so far
\* (compressed events included) and ties go to the citation added first.
C11_TopCitationsOrder ==
    \A limit \in 0..(Cardinality(MemCitations) + 1) :
        LET top == top_citations(memory, limit)
        IN /\ Len(top) <= limit
           /\ Len(top) = Min(limit, Cardinality(CitationsSeen))
           /\ SeqSet(top) \subseteq CitationsSeen
           /\ \A i, j \in 1..Len(top) : i < j => RanksBefore(top[i], top[j])
           /\ \A i \in 1..Len(top) :
                 \A c \in CitationsSeen \ SeqSet(top) : RanksBefore(top[i], c)

\* C11 witness: two citations with the same frequency, the one added first is
\* the only one returned for limit 1, and events carrying them were compressed.
C11_Witness ==
    /\ pc = "memory_only"
    /\ Len(memory.summary) >= 1
    /\ TotalOccurrences(add_log, "c1") = TotalOccurrences(add_log, "c2")
    /\ TotalOccurrences(add_log, "c1") >= 2
    /\ top_citations(memory, 1) = <<"c2">>
    /\ top_citations(memory, 2) = <<"c2", "c1">>

(***************************************************************************)
(* Claims about the stages of a run, checked under Spec.                   *)
(***************************************************************************)
\* the stages emitted so far, in order
Stages == [i \in 1..Len(emitted) |-> emitted[i].stage]

StageCount(stage) == Cardinality({i \in 1..Len(emitted) : emitted[i].stage = stage})

LastStage == IF emitted = <<>> THEN None ELSE emitted[Len(emitted)].stage

\* the stages that may directly follow a stage
NextStages(stage) ==
    CASE stage = "planning" -> {"planned"}
      [] stage = "planned" -> {"step_started", "summarizing"}
      [] stage = "step_started" -> {"step_finished"}
      [] stage = "step_finished" -> {"replanned", "step_started", "summarizing"}
      [] stage = "replanned" -> {"step_started", "summarizing"}
      [] stage = "summarizing" -> {"done"}
      [] OTHER -> {}

\* C12: the stages of a run come in the order planning, planned, then rounds
\* of step_started, step_finished and an optional replanned, then summarizing,
\* then done; planning (the plan call) happens once and first, summarize is
\* called at most once and exactly once in a finished run, only after the last
\* step, and no step is executed once summarizing has begun.
C12_StageOrder ==
    /\ [](/\ (emitted # <<>> => emitted[1].stage = "planning")
          /\ \A i \in 1..(Len(emitted) - 1) :
                emitted[i + 1].stage \in NextStages(emitted[i].stage)
          /\ StageCount("planning") = (IF pc = "start" THEN 0 ELSE 1)
          /\ StageCount("step_started") = Len(executed)
          /\ StageCount("summarizing") <= 1
          /\ Len(summarize_calls) <= StageCount("summarizing")
          /\ (pc = "loop" => LastStage \in {"planned", "step_finished", "replanned"})
          /\ (pc = "reflecting" => LastStage = "step_started")
          /\ (pc = "summarizing" => LastStage = "summarizing" /\ summarize_calls = <<>>)
          /\ (pc = "done" => LastStage = "done" /\ Len(summarize_calls) = 1))
    /\ [][(pc \in {"summarizing", "done"} \/ summarize_calls # <<>>)
              => (executed' = executed /\ plan' = plan)]_vars

\* C12 witness: a finished run with two rounds, one of them replanned.
C12_Witness ==
    /\ pc = "done"
    /\ StageCount("step_finished") = 2
    /\ StageCount("replanned") >= 1

\* the roles of all events ever added to a memory: the compressed ones, as
\* kept in the summary entries, then the live ones
RECURSIVE SummaryRoles(_)
SummaryRoles(summary) ==
    IF summary = <<>> THEN <<>>
    ELSE [i \in 1..Len(Head(summary)) |-> Head(summary)[i].role]
         \o SummaryRoles(Tail(summary))

MemoryRoles(mem) ==
    SummaryRoles(mem.summary) \o [i \in 1..Len(mem.events) |-> mem.events[i].role]

\* planner, then tool and reflect for each of k reflected steps, then tool
\* for a step whose reflection is pending
ExpectedRoles(k, pending) ==
    <<"planner">>
    \o [i \in 1..(2 * k) |-> IF i % 2 = 1 THEN "tool" ELSE "reflect"]
    \o (IF pending THEN <<"tool">> ELSE <<>>)

\* C13: the steps of a run are strictly sequential: each executed step has its
\* hits merged and its tool event recorded before reflect is called, reflect
\* is called exactly once per executed step with that step and its
\* observation, the reflect event follows the tool event, and a step is only
\* executed when the reflection of every earlier step has been recorded.
C13_StepsSequential ==
    /\ [](/\ Len(executed) - Len(execution_trace) \in {0, 1}
          /\ (pc = "reflecting" => Len(executed) = Len(execution_trace) + 1)
          /\ (pc \in {"loop", "summarizing", "done"} =>
                Len(executed) = Len(execution_trace))
          /\ Len(reflect_calls) =
                (IF pc = "reflecting" THEN Len(executed) - 1 ELSE Len(executed))
          /\ \A i \in 1..Len(reflect_calls) :
                reflect_calls[i] = [step |-> executed[i].step, observation |-> observed[i]]
          /\ (plan # Absent =>
                MemoryRoles(memory) =
                    ExpectedRoles(Len(execution_trace),
                                  Len(executed) > Len(execution_trace)))
          /\ (pc = "reflecting" =>
                /\ observation = observed[Len(observed)]
                /\ add_log[Len(add_log)] = Get(observation, "citations", <<>>)
                /\ \A h \in SeqSet(Get(observation, "hits", <<>>)) :
                      PoolGet(pooled_hits, h.chunk_id) # Absent))
    /\ [][Len(executed') > Len(executed) =>
              /\ Len(executed') = Len(executed) + 1
              /\ Len(reflect_calls) = Len(executed)
              /\ Len(execution_trace) = Len(executed)]_vars

\* C13 witness: the second step has been executed after the first reflection
\* was recorded, and its reflection is pending.
C13_Witness ==
    /\ pc = "reflecting"
    /\ Len(executed) = 2
    /\ Len(reflect_calls) = 1
    /\ Get(observation, "hits", <<>>) # <<>>

(***************************************************************************)
(* Claims about tool errors, checked under Spec.                           *)
(***************************************************************************)
KnownTools == {"hybrid_search", "timeline_scan", "citation_graph"}

StepTool(stp) == Get(stp, "tool", "hybrid_search")

\* the step being executed names a tool that does not exist
ExecutesUnknown == pc = "loop" /\ pc' = "reflecting" /\ StepTool(step') \notin KnownTools

\* the indices of the executed steps that named an unknown tool
UnknownRounds == {i \in 1..Len(executed) : StepTool(executed[i].step) \notin KnownTools}

\* C14: a step naming an unknown tool yields the observation {tool, error:
\* "unknown tool"} instead of an exception; executing it leaves the evidence
\* pool, the citation counts and the last primary paper unchanged, records a
\* tool event with no citations, and its reflection and trace entry (zero
\* hits, zero citations) are recorded like those of any other step, after
\* which the loop is back at its head with the queue the reflection left.
C14_UnknownTool ==
    /\ [][ExecutesUnknown =>
              /\ observation' = [tool |-> StepTool(step'), error |-> "unknown tool"]
              /\ pooled_hits' = pooled_hits
              /\ memory'.citation_counter = memory.citation_counter
              /\ last_primary_paper' = last_primary_paper
              /\ MemoryRoles(memory') = Append(MemoryRoles(memory), "tool")
              /\ add_log' = Append(add_log, <<>>)]_vars
    /\ [](\A i \in UnknownRounds :
            /\ observed[i] = [tool |-> StepTool(executed[i].step), error |-> "unknown tool"]
            /\ (i <= Len(reflect_calls) => reflect_calls[i].observation = observed[i])
            /\ (i <= Len(execution_trace) =>
                  /\ execution_trace[i].step_id = Get(executed[i].step, "id", None)
                  /\ execution_trace[i].tool = StepTool(executed[i].step)
                  /\ execution_trace[i].observation_summary.hit_count = 0
                  /\ execution_trace[i].observation_summary.citation_count = 0
                  /\ execution_trace[i].observation_summary.top_hits = <<>>))
    /\ [][(pc = "reflecting" /\ StepTool(step) \notin KnownTools /\ pc' # "failed") =>
              /\ pc' = "loop"
              /\ Len(execution_trace') = Len(execution_trace) + 1
              /\ Len(reflect_calls') = Len(reflect_calls) + 1
              /\ steps' = Replan(steps, reflection', next_uid + 1, executed_count)]_vars

\* C14 witness: an unknown tool was the first step and has been reflected on,
\* and the next queued step has been executed after it and found hits.
C14_Witness ==
    /\ Len(executed) = 2
    /\ 1 \in UnknownRounds
    /\ Len(execution_trace) >= 1
    /\ observed[2] # observed[1]
    /\ pooled_hits # <<>>

\* the step being executed is a citation_graph lookup of a paper id that is
\* not in the corpus
ExecutesGraphMiss ==
    /\ pc = "loop" /\ pc' = "reflecting"
    /\ StepTool(step') = "citation_graph"
    /\ paper_index(StepArgs(step', last_primary_paper).paper_id) = Absent

IsGraphMiss(obs) == Get(obs, "tool", None) = "citation_graph" /\ "error" \in DOMAIN obs

\* C15: citation_graph for a paper id outside the corpus does not abort the
\* run: the observation is an error observation with low_coverage true, no
\* hits and no citations, the reflect call for the step is made with that
\* observation, and the run goes on from the reflection.
C15_GraphMiss ==
    /\ [][ExecutesGraphMiss =>
              /\ IsGraphMiss(observation')
              /\ observation'.error = "paper not found"
              /\ observation'.ambiguity.low_coverage = TRUE
              /\ Get(observation', "hits", <<>>) = <<>>
              /\ observation'.citations = <<>>
              /\ pooled_hits' = pooled_hits
              /\ pc' = "reflecting"]_vars
    /\ [](\A i \in 1..Len(observed) :
            IsGraphMiss(observed[i]) =>
                /\ observed[i].ambiguity.low_coverage = TRUE
                /\ paper_index(observed[i].paper_id) = Absent
                /\ (i <= Len(reflect_calls) => reflect_calls[i].observation = observed[i])
                /\ (i > Len(reflect_calls) => pc = "reflecting" /\ i = Len(observed)))
    /\ [][(pc = "reflecting" /\ IsGraphMiss(observation) /\ pc' # "failed") =>
              /\ pc' = "loop"
              /\ reflect_calls' = Append(reflect_calls, [step |-> step, observation |-> observation])
              /\ steps' = Replan(steps, reflection', next_uid + 1, executed_count)]_vars

\* C15 witness: a lookup of a missing paper was reflected on, the reflection
\* replanned, and the run went on to finish.
C15_Witness ==
    /\ pc = "done"
    /\ Len(observed) = 2
    /\ IsGraphMiss(observed[1])
    /\ execution_trace[1].reflection.replan = TRUE
    /\ ~IsGraphMiss(observed[2])

(***************************************************************************)
(* Claims about a failing Reasoning Service call, checked under Spec.      *)
(***************************************************************************)
\* the run ended because grok.plan or grok.reflect raised
PlanOrReflectFailed == pc = "failed" /\ summarize_calls = <<>>

\* C19: when a plan or reflect call raises, the run ends there: nothing
\* changes afterwards (no step is executed, summarize is not called), there
\* is no result, and the registry entry of the run has status "failed", a
\* non-empty error and a null result.
C19_FailureTerminates ==
    /\ [](PlanOrReflectFailed =>
            /\ result = Absent
            /\ StageCount("summarizing") = 0
            /\ StageCount("done") = 0
            /\ run_state.status = "failed"
            /\ run_state.error # ""
            /\ run_state.result = Absent
            /\ run_state.progress.stage = "failed")
    /\ [][pc = "failed" => UNCHANGED vars]_vars
    /\ [][(pc = "reflecting" /\ pc' = "failed") =>
              /\ executed' = executed
              /\ steps' = steps
              /\ memory' = memory
              /\ execution_trace' = execution_trace
              /\ summarize_calls' = <<>>]_vars

\* C19 witness: reflect raised on the first step while a step was still
\* queued, an iteration was left and hits were already pooled.
C19_Witness ==
    /\ PlanOrReflectFailed
    /\ Len(executed) = 1
    /\ Len(reflect_calls) = 1
    /\ execution_trace = <<>>
    /\ steps # <<>>
    /\ pooled_hits # <<>>
    /\ iteration < max_iterations

(***************************************************************************)
(* GrokClient (grok.py): the calls on a client, each with the reply of the *)
(* Reasoning Service to its one request.                                   *)
(***************************************************************************)
MaxGrokCalls == 1        \* calls on the client per behaviour

Returned(value) == [raised |-> FALSE, value |-> value]
Raised(exception) == [raised |-> TRUE, exception |-> exception]

\* A piece of text is a sequence of segments: plain text without braces, a
\* JSON object, a JSON array without braces, or braces around text that is
\* not JSON.  A parsed JSON value keeps its kind beside its value.
SegText == [t |-> "text"]
SegBroken == [t |-> "broken"]
JsonObject(v) == [t |-> "object", v |-> v]
JsonArray(v) == [t |-> "array", v |-> v]
EmptyDict == JsonObject([k \in {} |-> FALSE])

\* the positions of the segments that hold a brace
BraceSegs(content) == {i \in 1..Len(content) : content[i].t \in {"object", "broken"}}

\* GrokClient._extract_json
_extract_json(content) ==
    IF Len(content) = 1 /\ content[1].t \in {"object", "array"} THEN content[1]
    ELSE IF BraceSegs(content) = {} THEN EmptyDict
    ELSE IF Cardinality(BraceSegs(content)) = 1
            /\ content[TheOne(BraceSegs(content))].t = "object"
         THEN content[TheOne(BraceSegs(content))]
    ELSE EmptyDict

\* GrokClient._chat on a live client: what the one request comes back with
_chat(reply) ==
    CASE reply.kind \in {"URLError", "TimeoutError", "JSONDecodeError"} -> Returned(<<>>)
      [] reply.kind = "IncompleteRead" -> Raised("IncompleteRead")
      [] reply.kind = "body" /\ reply.body.t # "object" -> Raised("AttributeError")
      [] OTHER ->
            IF Get(reply.body.v, "choices", <<>>) = <<>> THEN Returned(<<>>)
            ELSE Returned(Get(Get(reply.body.v.choices[1], "message", <<>>), "content", <<>>))

GrokQuery == Query1

\* GrokClient._default_plan
_default_plan(query) ==
    [objective |-> query,
     steps |-> <<[id |-> "s1",
                  sub_question |-> <<"Break", "down", "scope", "and", "time", "range", "for:">>
                                   \o query,
                  tool |-> "timeline_scan",
                  tool_args |-> [query |-> query, top_k |-> 5]],
                 [id |-> "s2", sub_question |-> query, tool |-> "hybrid_search",
                  tool_args |-> [query |-> query, top_k |-> 6]],
                 [id |-> "s3",
                  sub_question |-> query \o <<"contradictory", "multilingual", "evidence">>,
                  tool |-> "hybrid_search",
                  tool_args |-> [query |-> query \o <<"contradictory", "multilingual">>,
                                 top_k |-> 6]],
                 [id |-> "s4",
                  sub_question |-> <<"Inspect", "citation", "lineage", "of", "strongest",
                                     "source">>,
                  tool |-> "citation_graph",
                  tool_args |-> [paper_id |-> "auto"]]>>]

DefaultSummaryPoints == 4     \* evidence[:4]

\* GrokClient._default_summary
_default_summary(query, evidenceArg) ==
    [answer |-> <<"Query:">> \o query \o <<"Synthesis:">>,
     evidence_points |->
        [i \in 1..Min(DefaultSummaryPoints, Len(evidenceArg)) |->
            [paper_id |-> evidenceArg[i].paper_id, title |-> evidenceArg[i].title,
             year |-> evidenceArg[i].year, section |-> evidenceArg[i].section]],
     risks |-> <<"Potential benchmark inconsistency across venues",
                 "Limited longitudinal validation beyond 2025">>]

\* reflect, lines 158-177: the reflection of a client without a service
MockReflection(stp, obs) ==
    LET low_coverage == Get(Get(obs, "ambiguity", <<>>), "low_coverage", FALSE)
        conflicts == Get(Get(obs, "ambiguity", <<>>), "conflicting_stances", FALSE)
        replan == low_coverage \/ conflicts
    IN [replan |-> replan,
        reason |-> IF ~replan THEN "sufficient evidence for next step"
                   ELSE IF low_coverage THEN "evidence coverage is narrow"
                   ELSE "conflicting findings",
        new_steps |->
            IF replan
            THEN <<[id |-> <<"r-", Get(stp, "id", "x")>>,
                    sub_question |-> <<"Resolve", "ambiguity", "for:">>
                                     \o Get(stp, "sub_question", <<>>),
                    tool |-> "hybrid_search",
                    tool_args |-> [query |-> Get(stp, "sub_question", <<>>)
                                             \o <<"replication", "study", "limitations">>,
                                   top_k |-> 6]]>>
            ELSE <<>>]

\* plan, lines 149-152: from the content of the reply to the returned plan
PlanOf(chat, query) ==
    IF chat.raised THEN chat
    ELSE IF _extract_json(chat.value).t # "object" THEN Raised("AttributeError")
    ELSE IF Get(_extract_json(chat.value).v, "steps", <<>>) = <<>>
         THEN Returned(_default_plan(query))
    ELSE Returned(_extract_json(chat.value).v)

\* GrokClient.plan
GrokPlan(live, query, reply) ==
    IF ~live THEN Returned(_default_plan(query)) ELSE PlanOf(_chat(reply), query)

\* the reflection substituted for a reply without a replan flag
InvalidReflection == [replan |-> FALSE, reason |-> "invalid response", new_steps |-> <<>>]

\* reflect, lines 206-209
ReflectionOf(chat) ==
    IF chat.raised THEN chat
    ELSE IF _extract_json(chat.value).t # "object"
            \/ "replan" \notin DOMAIN _extract_json(chat.value).v
         THEN Returned(InvalidReflection)
    ELSE Returned(_extract_json(chat.value).v)

\* GrokClient.reflect
GrokReflect(live, stp, obs, reply) ==
    IF ~live THEN Returned(MockReflection(stp, obs)) ELSE ReflectionOf(_chat(reply))

\* summarize, lines 242-245: an empty dict or list is replaced, anything else
\* is returned as it is
SummaryOf(chat, query, evidenceArg) ==
    IF chat.raised THEN chat
    ELSE IF _extract_json(chat.value).v = <<>>
         THEN Returned(_default_summary(query, evidenceArg))
    ELSE Returned(_extract_json(chat.value).v)

\* GrokClient.summarize
GrokSummarize(live, query, evidenceArg, reply) ==
    IF ~live THEN Returned(_default_summary(query, evidenceArg))
    ELSE SummaryOf(_chat(reply), query, evidenceArg)

\* the JSON objects the service may put in the content of a reply
GoodPlan == [objective |-> "q", steps |-> <<StepSearch>>]
PlanNoSteps == [objective |-> "q"]
PlanEmptySteps == [objective |-> "q", steps |-> <<>>]
GoodReflection == [replan |-> TRUE, reason |-> "r", new_steps |-> <<StepTimeline>>]
ReflectionNoFlag == [reason |-> "r", new_steps |-> <<StepTimeline>>]
GoodSummary == [answer |-> <<"a">>, evidence_points |-> <<>>, risks |-> <<>>]
SummaryEmptyAnswer == [answer |-> <<>>, evidence_points |-> <<>>, risks |-> <<>>]
SummaryNoAnswer == [evidence_points |-> <<>>, risks |-> <<>>]

GrokObjects ==
    {GoodPlan, PlanNoSteps, PlanEmptySteps, GoodReflection, ReflectionNoFlag,
     GoodSummary, SummaryEmptyAnswer, SummaryNoAnswer}

\* the contents of a reply: a JSON object alone or inside prose, prose, braces
\* that are not JSON, nothing, a JSON array, two objects
GrokContents ==
    {<<JsonObject(o)>> : o \in GrokObjects}
    \cup {<<SegText, JsonObject(o), SegText>> : o \in {GoodPlan, GoodReflection, GoodSummary}}
    \cup {<<EmptyDict>>, <<SegText>>, <<SegBroken>>, <<>>, <<JsonArray(<<>>)>>,
          <<JsonObject(GoodPlan), SegText, JsonObject(GoodPlan)>>}

Envelope(content) ==
    [kind |-> "body",
     body |-> JsonObject([choices |-> <<[message |-> [role |-> "assistant",
                                                        content |-> content]]>>])]

\* what the one request of a call may come back with
GrokReplies ==
    {[kind |-> k] : k \in {"URLError", "TimeoutError", "JSONDecodeError", "IncompleteRead"}}
    \cup {[kind |-> "body", body |-> JsonArray(<<>>)],
          [kind |-> "body", body |-> JsonObject([error |-> "overloaded"])],
          [kind |-> "body", body |-> JsonObject([choices |-> <<>>])],
          [kind |-> "body", body |-> JsonObject([choices |-> <<[index |-> 0]>>])]}
    \cup {Envelope(c) : c \in GrokContents}

GrokEvidenceHit ==
    [chunk_id |-> "P1::abstract", paper_id |-> "P1", title |-> <<"t">>, year |-> 2021,
     section |-> "abstract", hybrid_score |-> 1]

GrokObservations ==
    {[tool |-> "hybrid_search", hits |-> <<>>, citations |-> <<>>,
      ambiguity |-> [low_coverage |-> lc, conflicting_stances |-> cs]] : lc, cs \in BOOLEAN}
    \cup {[tool |-> "web_search", error |-> "unknown tool"]}

GrokInit ==
    /\ pc = "grok_client"
    /\ client = "GrokClient"
    /\ grok_live \in BOOLEAN
    /\ grok_calls = <<>>
    /\ memory = NewContextMemory(MemoryWindow, DefaultCompressBatch)
    /\ add_log = <<>>
    /\ NoRun
    /\ NoRegistry
    /\ NoEngine

grokFrame ==
    <<pc, client, max_iterations, memory, add_log, plan, steps, iteration, step,
      observation, reflection, executed_count, expected_total_steps, pooled_hits,
      execution_trace, last_primary_paper, evidence, summarize_calls, result,
      executed, observed, next_uid, run_no, emitted, run_state, reflect_calls,
      grok_live, include_full_trace, full_trace, engine, tool_call, reader, registry>>

GrokPlanCall(reply) ==
    /\ Len(grok_calls) < MaxGrokCalls
    /\ grok_calls' = Append(grok_calls,
                            [call |-> "plan", reply |-> reply,
                             outcome |-> GrokPlan(grok_live, GrokQuery, reply)])
    /\ UNCHANGED grokFrame

GrokReflectCall(obs, reply) ==
    /\ Len(grok_calls) < MaxGrokCalls
    /\ grok_calls' = Append(grok_calls,
                            [call |-> "reflect", reply |-> reply,
                             outcome |-> GrokReflect(grok_live, StepSearch, obs, reply)])
    /\ UNCHANGED grokFrame

GrokSummarizeCall(evidenceArg, reply) ==
    /\ Len(grok_calls) < MaxGrokCalls
    /\ grok_calls' = Append(grok_calls,
                            [call |-> "summarize", reply |-> reply,
                             outcome |-> GrokSummarize(grok_live, GrokQuery, evidenceArg,
                                                       reply)])
    /\ UNCHANGED grokFrame

GrokNext ==
    \/ \E reply \in GrokReplies : GrokPlanCall(reply)
    \/ \E obs \in GrokObservations, reply \in GrokReplies : GrokReflectCall(obs, reply)
    \/ \E ev \in {<<>>, <<GrokEvidenceHit>>}, reply \in GrokReplies :
          GrokSummarizeCall(ev, reply)

GrokSpec == GrokInit /\ [][GrokNext]_vars

(***************************************************************************)
(* Claims about the Reasoning Service contract, checked under GrokSpec.    *)
(***************************************************************************)
\* the reply is a well-formed envelope: an object with a first choice that
\* holds a message with a content
WellFormedEnvelope(reply) ==
    /\ reply.kind = "body"
    /\ reply.body.t = "object"
    /\ Get(reply.body.v, "choices", <<>>) # <<>>
    /\ "message" \in DOMAIN reply.body.v.choices[1]
    /\ "content" \in DOMAIN reply.body.v.choices[1].message

ReplyContent(reply) == reply.body.v.choices[1].message.content

\* the content of the reply is a JSON object that breaks the contract of the
\* call: a plan with missing or empty steps, a reflection without a replan
\* flag, a summary with a missing or empty answer
ViolatesContract(c) ==
    /\ WellFormedEnvelope(c.reply)
    /\ Len(ReplyContent(c.reply)) = 1
    /\ ReplyContent(c.reply)[1].t = "object"
    /\ CASE c.call = "plan" -> Get(ReplyContent(c.reply)[1].v, "steps", <<>>) = <<>>
         [] c.call = "reflect" -> "replan" \notin DOMAIN ReplyContent(c.reply)[1].v
         [] OTHER -> Get(ReplyContent(c.reply)[1].v, "answer", <<>>) = <<>>

\* C17 as stated: on a client that talks to the service, a call whose reply
\* violates the contract of the call raises, and no default is returned in
\* its place.
C17_ContractViolationRaises ==
    \A i \in 1..Len(grok_calls) :
        (grok_live /\ ViolatesContract(grok_calls[i])) => grok_calls[i].outcome.raised

\* a transport error, a timeout, or a reply that is not a well-formed envelope
TransportOrEnvelopeError(reply) ==
    \/ reply.kind \in {"URLError", "TimeoutError", "JSONDecodeError", "IncompleteRead"}
    \/ ~WellFormedEnvelope(reply)

\* C18 as stated: on a client that talks to the service, a call whose request
\* meets a transport error, a timeout or a malformed envelope raises and
\* returns no value.
C18_TransportErrorRaises ==
    \A i \in 1..Len(grok_calls) :
        (grok_live /\ TransportOrEnvelopeError(grok_calls[i].reply))
            => grok_calls[i].outcome.raised

(***************************************************************************)
(* Successive run() calls on one agent: run() creates its locals anew      *)
(* (lines 145-166) while self.memory and self.last_primary_paper, set in   *)
(* __init__ (lines 30-32), are left as the previous call left them.        *)
(***************************************************************************)
MaxRuns == 2             \* run() calls on the agent per behaviour

\* the caller calls run() again after the previous call returned or raised
RunAgain ==
    /\ pc \in {"done", "failed"}
    /\ run_no < MaxRuns
    /\ run_no' = run_no + 1
    /\ pc' = "start"
    /\ plan' = Absent
    /\ steps' = <<>>
    /\ iteration' = 0
    /\ step' = Absent
    /\ observation' = Absent
    /\ reflection' = Absent
    /\ executed_count' = 0
    /\ expected_total_steps' = 0
    /\ pooled_hits' = <<>>
    /\ execution_trace' = <<>>
    /\ evidence' = <<>>
    /\ summarize_calls' = <<>>
    /\ result' = Absent
    /\ executed' = <<>>
    /\ observed' = <<>>
    /\ next_uid' = 0
    /\ emitted' = <<>>
    /\ run_state' = RunningState
    /\ reflect_calls' = <<>>
    /\ full_trace' = <<>>
    /\ UNCHANGED <<client, grok_live, grok_calls, include_full_trace, engine, tool_call,
                   reader, registry, max_iterations, memory, add_log, last_primary_paper>>

\* the plans and reflections of the runs of this specification
RerunPlans ==
    {[objective |-> "q", steps |-> ss] :
        ss \in {<<>>, <<StepSearch>>, <<StepTimeline>>, <<StepGraphAuto>>,
                <<StepDefault, StepGraphAuto>>, <<StepGraphMissing, StepGraphAuto>>}}

RerunReflections == {[replan |-> FALSE, reason |-> "r", new_steps |-> <<>>]}

RerunInit == Init /\ client = "injected" /\ max_iterations = MaxIterations

RerunNext ==
    \/ \E p \in RerunPlans : Plan(p)
    \/ PlanFails
    \/ ExecuteStep
    \/ \E r \in RerunReflections : Reflect(r)
    \/ ReflectFails
    \/ LeaveLoop
    \/ \E s \in Summaries : Summarize(s)
    \/ SummarizeFails
    \/ RunAgain

RerunSpec == RerunInit /\ [][RerunNext]_vars

(***************************************************************************)
(* Claims about the state a run starts with, checked under RerunSpec.      *)
(***************************************************************************)
\* the step being executed is a citation_graph step
ExecutesGraph == pc = "loop" /\ pc' = "reflecting" /\ StepTool(step') = "citation_graph"

\* the observations of this run that had hits
RoundsWithHits == {i \in 1..Len(observed) : Get(observed[i], "hits", <<>>) # <<>>}

Latest(rounds) == CHOOSE i \in rounds : \A j \in rounds : j <= i

\* the paper id the claim gives for an absent, empty or "auto" paper_id
PrimaryOfThisRun ==
    IF RoundsWithHits = {} THEN papers[1].paper_id
    ELSE observed[Latest(RoundsWithHits)].hits[1].paper_id

\* C16 as stated: a citation_graph step whose paper_id is absent, empty or
\* "auto" looks up the paper of the first hit of the most recent observation
\* of this run that had hits, or the first document of the corpus when no
\* step of this run has produced a hit; any other paper_id is looked up as
\* given.
C16_AutoPaperOfThisRun ==
    [][ExecutesGraph =>
          observation'.paper_id =
              (IF Get(Get(step', "tool_args", <<>>), "paper_id", "auto") \in {"", "auto"}
               THEN PrimaryOfThisRun
               ELSE step'.tool_args.paper_id)]_vars

\* C20 as stated: each run() call starts with an empty queue and pool, a
\* fresh context memory and no last primary paper.
C20_RunStartsFresh ==
    pc = "start" =>
        /\ steps = <<>>
        /\ pooled_hits = <<>>
        /\ memory = NewContextMemory(MemoryWindow, DefaultCompressBatch)
        /\ last_primary_paper = None

(***************************************************************************)
(* Claims about compression, checked under MemSpec.                        *)
(***************************************************************************)
\* an add_event call is made and the log, with the new event, exceeds the cap
AddOverflows == add_log' # add_log /\ Len(memory.events) + 1 > memory.max_events

\* the number of events one add_event call removes from a log of n events
RemovedByAdd(mem, n) ==
    IF n + 1 > mem.max_events THEN Min(mem.compress_batch, n + 1) ELSE 0

CompactOf(event) ==
    [role |-> event.role, content |-> Take(event.content, ContentPrefixCompress)]

\* C30 as stated: each time the log exceeds max_events exactly compress_batch
\* events are removed.
C30_Original ==
    [][AddOverflows =>
          Len(memory.events) + 1 - Len(memory'.events) = memory.compress_batch]_vars

\* C30 amended: each time the log exceeds max_events, the oldest
\* min(compress_batch, live count) events are removed in one step (exactly
\* compress_batch when compress_batch <= max_events + 1) and one summary entry
\* covering them in their order is appended; the remaining events keep their
\* order, earlier summary entries stay as they are, no add_event call without
\* overflow touches the summary, and snapshot shows the last 3 summary
\* entries and every live event.
C30_CompressOldest ==
    /\ [][add_log' # add_log =>
              LET n == Len(memory.events)
                  removed == RemovedByAdd(memory, n)
              IN /\ Len(memory'.events) = n + 1 - removed
                 /\ (memory.compress_batch <= memory.max_events + 1 =>
                        removed \in {0, memory.compress_batch})
                 /\ \A i \in 1..(n - removed) : memory'.events[i] = memory.events[removed + i]
                 /\ Take(memory'.summary, Len(memory.summary)) = memory.summary
                 /\ Len(memory'.summary) =
                        Len(memory.summary) + (IF removed > 0 THEN 1 ELSE 0)
                 /\ (removed > 0 =>
                        /\ Len(memory'.summary[Len(memory'.summary)]) = removed
                        /\ \A i \in 1..Min(removed, n) :
                              memory'.summary[Len(memory'.summary)][i]
                                  = CompactOf(memory.events[i]))]_vars
    /\ [](/\ Len(snapshot(memory).summary_text) = Min(SnapshotSummaries, Len(memory.summary))
          /\ \A i \in 1..Len(snapshot(memory).summary_text) :
                snapshot(memory).summary_text[i] =
                    memory.summary[Len(memory.summary)
                                   - Len(snapshot(memory).summary_text) + i]
          /\ Len(snapshot(memory).event_text) = Len(memory.events)
          /\ \A i \in 1..Len(memory.events) :
                snapshot(memory).event_text[i].role = memory.events[i].role)

\* C30 witness: more than three batches were folded, each smaller than the
\* batch size because the cap is small, and a live event is left.
C30_Witness ==
    /\ pc = "memory_only"
    /\ Len(memory.summary) > SnapshotSummaries
    /\ memory.compress_batch > memory.max_events + 1
    /\ \A i \in 1..Len(memory.summary) : Len(memory.summary[i]) < memory.compress_batch

(***************************************************************************)
(* Claims about the result of a run, checked under Spec and TraceSpec.     *)
(***************************************************************************)
EvidenceKey(hit) == <<hit.hybrid_score, hit.year>>

\* C26: the evidence slice passed to summarize and returned in the result has
\* at most 8 entries taken from the pool, is sorted non-increasing by
\* (hybrid_score, year), has pairwise distinct chunk ids, and no pooled hit
\* left out of it ranks strictly higher than a hit in it.
C26_EvidenceSlice ==
    /\ (pc \in {"summarizing", "done"} =>
          /\ Len(evidence) = Min(EvidenceLimit, Len(pooled_hits))
          /\ SeqSet(evidence) \subseteq SeqSet(pooled_hits)
          /\ \A i, j \in 1..Len(evidence) :
                i < j => /\ ~TupleLess(EvidenceKey(evidence[i]), EvidenceKey(evidence[j]))
                         /\ evidence[i].chunk_id # evidence[j].chunk_id
          /\ \A h \in SeqSet(pooled_hits) \ SeqSet(evidence) :
                \A i \in 1..Len(evidence) :
                    ~TupleLess(EvidenceKey(evidence[i]), EvidenceKey(h)))
    /\ \A i \in 1..Len(summarize_calls) : summarize_calls[i] = evidence
    /\ (pc = "done" => result.evidence = evidence)

\* C26 witness: a finished run whose pool held more than 8 hits.
C26_Witness ==
    /\ pc = "done"
    /\ Len(pooled_hits) > EvidenceLimit
    /\ Len(result.evidence) = EvidenceLimit
    /\ \E i \in 1..Len(pooled_hits) : pooled_hits[i] # evidence[Min(i, EvidenceLimit)]

(***************************************************************************)
(* Runs with and without include_full_trace, on a small set of plans and   *)
(* reflections.                                                            *)
(***************************************************************************)
TracePlans ==
    {[objective |-> "q", steps |-> ss] :
        ss \in {<<>>, <<StepSearch>>, <<StepUnknown, StepGraphMissing>>}}
    \cup {[objective |-> "q"]}

TraceReflections ==
    {[replan |-> FALSE, reason |-> "r", new_steps |-> <<>>],
     [replan |-> TRUE, reason |-> "r", new_steps |-> <<StepTimeline>>],
     [replan |-> TRUE, reason |-> "r"]}

TraceInit == InitRun /\ client = "injected" /\ include_full_trace \in BOOLEAN

TraceNext ==
    \/ \E p \in TracePlans : Plan(p)
    \/ PlanFails
    \/ ExecuteStep
    \/ \E r \in TraceReflections : Reflect(r)
    \/ ReflectFails
    \/ LeaveLoop
    \/ \E s \in Summaries : Summarize(s)
    \/ SummarizeFails

TraceSpec == TraceInit /\ [][TraceNext]_vars

ResultKeys == {"query", "plan", "execution_trace", "summary", "citations", "evidence"}

\* C25: a completed run returns a result with query, plan, execution_trace,
\* summary, citations and evidence; execution_trace has one compact entry with
\* an observation_summary per executed step, in execution order, so it is
\* non-empty when the plan has a step and max_iterations >= 1; full_trace is
\* in the result exactly when the run was asked for it, and then has one entry
\* per entry of execution_trace.
C25_ResultShape ==
    pc = "done" =>
        /\ ResultKeys \subseteq DOMAIN result
        /\ result.query = RunQuery
        /\ result.plan = plan
        /\ result.evidence = evidence
        /\ result.citations = top_citations(memory, CitationLimit)
        /\ Len(result.execution_trace) = Len(executed)
        /\ \A i \in 1..Len(executed) :
              /\ result.execution_trace[i].step_id = Get(executed[i].step, "id", None)
              /\ result.execution_trace[i].observation_summary
                    = _compact_observation(observed[i])
        /\ ((PlanSteps(plan) # <<>> /\ max_iterations >= 1) => result.execution_trace # <<>>)
        /\ ("full_trace" \in DOMAIN result <=> include_full_trace)
        /\ (include_full_trace =>
              /\ Len(result.full_trace) = Len(result.execution_trace)
              /\ \A i \in 1..Len(executed) :
                    /\ result.full_trace[i].step = executed[i].step
                    /\ result.full_trace[i].observation = observed[i])

\* C25 witness: a completed run with the full trace of two steps, the second
\* one added by a reflection.
C25_Witness ==
    /\ pc = "done"
    /\ include_full_trace
    /\ Len(PlanSteps(plan)) = 1
    /\ Len(result.full_trace) = 2
    /\ result.full_trace[1].reflection.replan

(***************************************************************************)
(* The retriever and the tool executor on their own, called by two runs    *)
(***************************************************************************)

MaxToolCalls == 2

ToolRuns == {1, 2}

Alphas == {0, 1, RetrievalAlpha, 100}

QueryOneChunk == <<"degrades">>
QueryAllChunks == <<"survey", "hybrid", "citation">>
QueryNoMatch == <<"quantum">>

ToolQueries == {<<>>, QueryNoMatch, QueryOneChunk, QueryAllChunks, Query1, Query2, Query3}

ToolTopKs == {0, 1, 3, 12}

ToolPaperIds == {"P1", "P2", "P3", "P7", ""}

\* a lookup that inserts the missing key, as defaultdict's subscript does
CitedByGet_Subscript(index, paper_id) ==
    [value |-> Get(index, paper_id, <<>>),
     index |-> IF paper_id \in DOMAIN index THEN index ELSE (paper_id :> <<>>) @@ index]

\* citation_graph: self.cited_by_index.get(paper_id, []), with the index it leaves
CitedByGet(index, paper_id) ==
    [value |-> Get(index, paper_id, <<>>), index |-> index]

\* an index that also records the edges to ids of no paper
CitedKnown_Any(cited, known) == TRUE

\* ToolExecutor.__init__: `if cited in self.paper_index`
CitedKnown(cited, known) == cited \in known

\* ToolExecutor.__init__: the inner loop over one paper's citations
RECURSIVE CitedAfterPaper(_, _, _, _)
CitedAfterPaper(index, known, paper_id, citations) ==
    IF citations = <<>> THEN index
    ELSE LET cited == Head(citations)
             appended == IF CitedKnown(cited, known)
                         THEN (cited :> Append(Get(index, cited, <<>>), paper_id)) @@ index
                         ELSE index
         IN CitedAfterPaper(appended, known, paper_id, Tail(citations))

\* ToolExecutor.__init__: the outer loop over the papers
RECURSIVE CitedAfterPapers(_, _, _)
CitedAfterPapers(index, known, ps) ==
    IF ps = <<>> THEN index
    ELSE CitedAfterPapers(
             CitedAfterPaper(index, known, Head(ps).paper_id, Head(ps).citations),
             known, Tail(ps))

\* ToolExecutor.__init__: {paper.paper_id: paper for paper in papers}
PaperIndexOf(ps) ==
    [id \in {ps[i].paper_id : i \in 1..Len(ps)} |->
        ps[CHOOSE i \in 1..Len(ps) :
              /\ ps[i].paper_id = id
              /\ \A j \in (i + 1)..Len(ps) : ps[j].paper_id # id]]

\* ToolExecutor.__init__: the two indexes
ToolExecutorIndexes(ps) ==
    [paper_index |-> PaperIndexOf(ps),
     cited_by_index |-> CitedAfterPapers(<<>>, DOMAIN PaperIndexOf(ps), ps)]

CorpusTokens == UNION {SeqSet(chunk_tokens[k]) : k \in DOMAIN chunk_tokens}

CorpusIndexes == ToolExecutorIndexes(papers)

\* HybridRetriever.__init__ and ToolExecutor.__init__ over the corpus
BuiltEngine(alpha100) ==
    [alpha |-> alpha100,
     chunks |-> chunks,
     chunk_tokens |-> chunk_tokens,
     idf |-> [t \in CorpusTokens |-> idf(t)],
     chunk_vectors |-> chunk_vectors,
     paper_index |-> CorpusIndexes.paper_index,
     cited_by_index |-> CorpusIndexes.cited_by_index]

EngineTable == [a \in Alphas |-> BuiltEngine(a)]

TableTopKs == ToolTopKs \cup {Max(k, TimelineMinTopK) : k \in ToolTopKs}

ScoreTable == [a \in Alphas |-> [q \in ToolQueries |-> ScoreAll(tokenize(q), a)]]

SearchTable ==
    [a \in Alphas |-> [q \in ToolQueries |-> [k \in TableTopKs |-> search(q, k, a)]]]

HybridTable ==
    [a \in Alphas |-> [q \in ToolQueries |-> [k \in ToolTopKs |-> HybridSearchOn(a, q, k)]]]

TimelineTable ==
    [a \in Alphas |-> [q \in ToolQueries |-> [k \in ToolTopKs |-> TimelineScanOn(a, q, k)]]]

ToolInit ==
    /\ pc = "tools_only"
    /\ client = None
    /\ grok_live = FALSE
    /\ grok_calls = <<>>
    /\ NoRun
    /\ NoRegistry
    /\ memory = NewContextMemory(MemoryWindow, DefaultCompressBatch)
    /\ add_log = <<>>
    /\ \E a \in Alphas : engine = EngineTable[a]
    /\ tool_call = Absent

CallsMade == IF tool_call = Absent THEN 0 ELSE tool_call.n

toolFrame ==
    <<pc, client, max_iterations, memory, add_log, plan, steps, iteration, step,
      observation, reflection, executed_count, expected_total_steps, pooled_hits,
      execution_trace, last_primary_paper, evidence, summarize_calls, result,
      executed, observed, next_uid, run_no, emitted, run_state, reflect_calls,
      grok_live, grok_calls, include_full_trace, full_trace, reader, registry>>

\* HybridRetriever.search called by one of the runs
SearchCall(run, query, top_k) ==
    /\ pc = "tools_only"
    /\ CallsMade < MaxToolCalls
    /\ tool_call' = [n |-> CallsMade + 1, run |-> run, tool |-> "search",
                     args |-> [query |-> query, top_k |-> top_k],
                     result |-> SearchTable[engine.alpha][query][top_k]]
    /\ UNCHANGED <<engine, toolFrame>>

\* ToolExecutor.hybrid_search called by one of the runs
HybridSearchCall(run, query, top_k) ==
    /\ pc = "tools_only"
    /\ CallsMade < MaxToolCalls
    /\ tool_call' = [n |-> CallsMade + 1, run |-> run, tool |-> "hybrid_search",
                     args |-> [query |-> query, top_k |-> top_k],
                     result |-> HybridTable[engine.alpha][query][top_k]]
    /\ UNCHANGED <<engine, toolFrame>>

\* ToolExecutor.timeline_scan called by one of the runs
TimelineScanCall(run, query, top_k) ==
    /\ pc = "tools_only"
    /\ CallsMade < MaxToolCalls
    /\ tool_call' = [n |-> CallsMade + 1, run |-> run, tool |-> "timeline_scan",
                     args |-> [query |-> query, top_k |-> top_k],
                     result |-> TimelineTable[engine.alpha][query][top_k]]
    /\ UNCHANGED <<engine, toolFrame>>

\* ToolExecutor.citation_graph called by one of the runs
CitationGraphCall(run, paper_id) ==
    /\ pc = "tools_only"
    /\ CallsMade < MaxToolCalls
    /\ \E paper \in {Get(engine.paper_index, paper_id, Absent)},
          looked \in {CitedByGet(engine.cited_by_index, paper_id)} :
          /\ tool_call' = [n |-> CallsMade + 1, run |-> run, tool |-> "citation_graph",
                           args |-> [paper_id |-> paper_id],
                           result |-> GraphOf(paper_id, paper, looked.value)]
          /\ engine' = IF paper = Absent THEN engine
                       ELSE [engine EXCEPT !.cited_by_index = looked.index]
    /\ UNCHANGED toolFrame

ToolNext ==
    \/ \E run \in ToolRuns, query \in ToolQueries, top_k \in ToolTopKs :
          SearchCall(run, query, top_k)
    \/ \E run \in ToolRuns, query \in ToolQueries, top_k \in ToolTopKs :
          HybridSearchCall(run, query, top_k)
    \/ \E run \in ToolRuns, query \in ToolQueries, top_k \in ToolTopKs :
          TimelineScanCall(run, query, top_k)
    \/ \E run \in ToolRuns, paper_id \in ToolPaperIds : CitationGraphCall(run, paper_id)

ToolSpec == ToolInit /\ [][ToolNext]_vars

(***************************************************************************)
(* Claims about retrieval and the tools, checked under ToolSpec            *)
(***************************************************************************)

Called(tool_name) == tool_call # Absent /\ tool_call.tool = tool_name

RankKey(hit) == <<hit.hybrid_score, hit.semantic_score, hit.chunk.year>>

\* the chunks the query of the last call scores, before filtering and ranking
ScoredByCall == ScoreTable[engine.alpha][tool_call.args.query]

\* position of a chunk in a list of hits, 0 when it is not there
HitPos(hits, chunk_id) ==
    IF \E i \in 1..Len(hits) : hits[i].chunk.chunk_id = chunk_id
    THEN CHOOSE i \in 1..Len(hits) : hits[i].chunk.chunk_id = chunk_id
    ELSE 0

\* C22: for any query, alpha in [0,1] and top_k >= 0, search returns at most
\* top_k hits (all the positive-score chunks when there are fewer), every
\* returned hit has hybrid_score > 0, and the list is sorted non-increasing by
\* (hybrid_score, semantic_score, year).
C22_SearchRanked ==
    Called("search") =>
        \E hits \in {tool_call.result} :
            /\ Len(hits) <= tool_call.args.top_k
            /\ Len(hits) = Min(tool_call.args.top_k,
                               Cardinality({k \in DOMAIN ScoredByCall :
                                               ScoredByCall[k].hybrid_score > 0}))
            /\ \A i \in 1..Len(hits) :
                  /\ hits[i].hybrid_score > 0
                  /\ \E k \in DOMAIN ScoredByCall : ScoredByCall[k] = hits[i]
            /\ \A i, j \in 1..Len(hits) :
                  i < j => ~TupleLess(RankKey(hits[i]), RankKey(hits[j]))

\* C22 witness: a search that fills top_k, leaves a chunk without any match
\* out and breaks a tie in hybrid_score.
C22_Witness ==
    /\ Called("search")
    /\ tool_call.args.top_k >= 3
    /\ Len(tool_call.result) = tool_call.args.top_k
    /\ \E k \in DOMAIN ScoredByCall : ScoredByCall[k].hybrid_score = 0
    /\ \E i \in 1..(Len(tool_call.result) - 1) :
          /\ tool_call.result[i].hybrid_score = tool_call.result[i + 1].hybrid_score
          /\ RankKey(tool_call.result[i]) # RankKey(tool_call.result[i + 1])

\* C23: for any alpha > 0 and any two chunks with equal keyword_score for the
\* query, the chunk with the higher semantic_score is ranked at least as high
\* by search: when the other chunk is returned, it is returned before it.
C23_SemanticBreaksTies ==
    (Called("search") /\ engine.alpha > 0) =>
        \A a, b \in DOMAIN ScoredByCall :
            (/\ ScoredByCall[a].keyword_score = ScoredByCall[b].keyword_score
             /\ ScoredByCall[a].semantic_score > ScoredByCall[b].semantic_score
             /\ HitPos(tool_call.result, chunks[b].chunk_id) # 0)
            => /\ HitPos(tool_call.result, chunks[a].chunk_id) # 0
               /\ HitPos(tool_call.result, chunks[a].chunk_id)
                     < HitPos(tool_call.result, chunks[b].chunk_id)

\* C23 witness: a search with alpha > 0 that returns two chunks of equal
\* keyword_score and different semantic_score.
C23_Witness ==
    /\ Called("search")
    /\ engine.alpha > 0
    /\ \E i, j \in 1..Len(tool_call.result) :
          /\ i < j
          /\ tool_call.result[i].keyword_score = tool_call.result[j].keyword_score
          /\ tool_call.result[i].semantic_score > tool_call.result[j].semantic_score

\* the chunks with a positive score for the query of the last call
MatchedByCall == {k \in DOMAIN ScoredByCall : ScoredByCall[k].hybrid_score > 0}

\* C27: in a hybrid_search observation the hits are the serialized hits of
\* search, low_coverage is true exactly when they come from fewer than 2
\* distinct paper ids (no hits included) and conflicting_stances exactly when
\* they carry more than one stance; a query that matches a single chunk gives
\* one hit with that chunk's paper_id and low_coverage = true.
C27_AmbiguitySignal ==
    Called("hybrid_search") =>
        \E hits \in {tool_call.result.hits} :
            /\ hits = Serialize(SearchTable[engine.alpha][tool_call.args.query]
                                           [tool_call.args.top_k])
            /\ tool_call.result.ambiguity.low_coverage
                  <=> Cardinality({hits[i].paper_id : i \in 1..Len(hits)}) < 2
            /\ tool_call.result.ambiguity.conflicting_stances
                  <=> Cardinality({hits[i].stance : i \in 1..Len(hits)}) > 1
            /\ (hits = <<>>) => tool_call.result.ambiguity.low_coverage
            /\ (Cardinality(MatchedByCall) = 1 /\ tool_call.args.top_k >= 1) =>
                  /\ Len(hits) = 1
                  /\ \A k \in MatchedByCall : hits[1].chunk_id = chunks[k].chunk_id
                                              /\ hits[1].paper_id = chunks[k].paper_id
                  /\ tool_call.result.ambiguity.low_coverage

\* C27 witness: the query that matches only the findings section of P2.
C27_Witness ==
    /\ Called("hybrid_search")
    /\ tool_call.args.query = QueryOneChunk
    /\ Len(tool_call.result.hits) = 1
    /\ tool_call.result.hits[1].paper_id = "P2"
    /\ tool_call.result.hits[1].section = "findings"
    /\ tool_call.result.ambiguity.low_coverage

\* the relevance ranking a timeline_scan call re-sorts
TimelinePool ==
    Serialize(SearchTable[engine.alpha][tool_call.args.query]
                         [Max(tool_call.args.top_k, TimelineMinTopK)])

\* position of a serialized hit in a list of serialized hits, 0 when not there
DictPos(dicts, chunk_id) ==
    IF \E i \in 1..Len(dicts) : dicts[i].chunk_id = chunk_id
    THEN CHOOSE i \in 1..Len(dicts) : dicts[i].chunk_id = chunk_id
    ELSE 0

\* C28: timeline_scan returns at most top_k hits, sorted non-decreasing by
\* year; they are the earliest-year hits among the top max(top_k, 10) hits of
\* the relevance ranking, and hits of equal year keep their relevance order,
\* among themselves and against the hits left out.
C28_TimelineEarliest ==
    Called("timeline_scan") =>
        \E r \in {tool_call.result.hits}, pool \in {TimelinePool} :
            /\ Len(r) <= tool_call.args.top_k
            /\ Len(r) = Min(tool_call.args.top_k, Len(pool))
            /\ Len(pool) <= Max(tool_call.args.top_k, TimelineMinTopK)
            /\ \A i \in 1..Len(r) :
                  /\ DictPos(pool, r[i].chunk_id) # 0
                  /\ pool[DictPos(pool, r[i].chunk_id)] = r[i]
            /\ \A i, j \in 1..Len(r) :
                  i < j =>
                     /\ r[i].year <= r[j].year
                     /\ r[i].chunk_id # r[j].chunk_id
                     /\ r[i].year = r[j].year
                           => DictPos(pool, r[i].chunk_id) < DictPos(pool, r[j].chunk_id)
            /\ \A j \in 1..Len(pool), i \in 1..Len(r) :
                  DictPos(r, pool[j].chunk_id) = 0 =>
                     /\ r[i].year <= pool[j].year
                     /\ r[i].year = pool[j].year => DictPos(pool, r[i].chunk_id) < j

\* C28 witness: more chunks match than the widened pool takes, and the
\* timeline is not the head of the relevance ranking.
C28_Witness ==
    /\ Called("timeline_scan")
    /\ tool_call.args.top_k = 3
    /\ Cardinality(MatchedByCall) > TimelineMinTopK
    /\ Len(TimelinePool) = TimelineMinTopK
    /\ Len(tool_call.result.hits) = 3
    /\ tool_call.result.hits # SubSeq(TimelinePool, 1, 3)
    /\ \E j \in 1..Len(TimelinePool) :
          TimelinePool[j].year > tool_call.result.hits[3].year

\* the result of the last call when made alone on a freshly built engine
ResultAlone ==
    CASE tool_call.tool = "search" ->
            search(tool_call.args.query, tool_call.args.top_k, engine.alpha)
      [] tool_call.tool = "hybrid_search" ->
            HybridSearchOn(engine.alpha, tool_call.args.query, tool_call.args.top_k)
      [] tool_call.tool = "timeline_scan" ->
            TimelineScanOn(engine.alpha, tool_call.args.query, tool_call.args.top_k)
      [] tool_call.tool = "citation_graph" ->
            citation_graph(tool_call.args.paper_id)

\* C24: search, hybrid_search, timeline_scan and citation_graph (a lookup of
\* an unknown or never-cited paper id included) leave the chunk list, the
\* token table, the idf table, the chunk vectors, the paper index and the
\* reverse-citation index as construction built them, so a call made after
\* the calls of another run returns what it returns on a fresh engine.
C24_ReadOnlyEngine ==
    pc = "tools_only" =>
        /\ engine = BuiltEngine(engine.alpha)
        /\ DOMAIN engine.cited_by_index \subseteq DOMAIN engine.paper_index
        /\ tool_call # Absent => tool_call.result = ResultAlone

\* C24 witness: the second call on the engine, a citation_graph lookup by
\* run 2 of a known paper that no paper cites.
C24_Witness ==
    /\ Called("citation_graph")
    /\ tool_call.n = 2
    /\ tool_call.run = 2
    /\ tool_call.args.paper_id \in DOMAIN engine.paper_index
    /\ tool_call.args.paper_id \notin DOMAIN engine.cited_by_index
    /\ tool_call.result.incoming = <<>>

(***************************************************************************)
(* Construction of the tool executor over small corpora                    *)
(***************************************************************************)

MaxPapers == 2

DrawnPaperIds == {"A", "B"}

DrawnCitations ==
    {<<>>, <<"A">>, <<"B">>, <<"X">>, <<"B", "X">>, <<"A", "B", "A">>}

DrawnPapers == [paper_id : DrawnPaperIds, citations : DrawnCitations]

DrawnCorpora == UNION {[1..n -> DrawnPapers] : n \in 0..MaxPapers}

IndexInit ==
    /\ pc = "index_only"
    /\ client = None
    /\ grok_live = FALSE
    /\ grok_calls = <<>>
    /\ NoRun
    /\ NoRegistry
    /\ memory = NewContextMemory(MemoryWindow, DefaultCompressBatch)
    /\ add_log = <<>>
    /\ \E ps \in DrawnCorpora : engine = [papers |-> ps]
    /\ tool_call = Absent

\* ToolExecutor.__init__ over the drawn papers
Construct ==
    /\ pc = "index_only"
    /\ DOMAIN engine = {"papers"}
    /\ engine' = [papers |-> engine.papers,
                  paper_index |-> ToolExecutorIndexes(engine.papers).paper_index,
                  cited_by_index |-> ToolExecutorIndexes(engine.papers).cited_by_index]
    /\ UNCHANGED <<tool_call, toolFrame>>

IndexNext == Construct

IndexSpec == IndexInit /\ [][IndexNext]_vars

Constructed == pc = "index_only" /\ "cited_by_index" \in DOMAIN engine

\* the citations of x in the first n papers of the corpus
RECURSIVE SumTo(_, _, _)
SumTo(n, ps, x) == IF n = 0 THEN 0 ELSE SumTo(n - 1, ps, x) + Occurrences(ps[n].citations, x)

\* how many times paper number i of the corpus cites x
TimesCited(ps, i, x) == Occurrences(ps[i].citations, x)

\* C29: the reverse-citation index built at construction is the exact inverse
\* of the papers' citation lists restricted to known ids: p is listed as
\* citing x if and only if a paper with id p has x in its citation list and x
\* is the id of a paper; an id of no paper is never a key; every listed edge
\* appears once per citation, in the order of the papers.
C29_ReverseIndex ==
    Constructed =>
        \E ps \in {engine.papers}, index \in {engine.cited_by_index} :
            \E known \in {{ps[i].paper_id : i \in 1..Len(ps)}} :
                /\ DOMAIN engine.paper_index = known
                /\ DOMAIN index \subseteq known
                /\ \A x \in DOMAIN index : index[x] # <<>>
                /\ \A p \in DrawnPaperIds \cup {"X"}, x \in DrawnPaperIds \cup {"X"} :
                      (x \in DOMAIN index /\ p \in SeqSet(index[x]))
                      <=> (/\ x \in known
                           /\ \E i \in 1..Len(ps) :
                                 ps[i].paper_id = p /\ x \in SeqSet(ps[i].citations))
                /\ \A x \in DOMAIN index :
                      /\ \A a, b \in 1..Len(index[x]) :
                            a < b => \E i, j \in 1..Len(ps) :
                                        /\ i <= j
                                        /\ ps[i].paper_id = index[x][a]
                                        /\ ps[j].paper_id = index[x][b]
                                        /\ TimesCited(ps, i, x) > 0
                                        /\ TimesCited(ps, j, x) > 0
                      /\ Len(index[x]) = SumTo(Len(ps), ps, x)

\* C29 witness: a corpus where a paper cites an id of no paper and a known
\* paper twice.
C29_Witness ==
    /\ Constructed
    /\ Len(engine.papers) = 2
    /\ engine.papers[1].paper_id # engine.papers[2].paper_id
    /\ \E i \in 1..2 : "X" \in SeqSet(engine.papers[i].citations)
    /\ \E x \in DOMAIN engine.cited_by_index :
          /\ Len(engine.cited_by_index[x]) = 2
          /\ engine.cited_by_index[x][1] = engine.cited_by_index[x][2]
    /\ "X" \notin DOMAIN engine.cited_by_index

(***************************************************************************)
(* A GET /api/runs/<id> request beside the worker of the run               *)
(***************************************************************************)

\* _json_response(self, payload) after `payload = dict(run)`: the copy is
\* shallow, so status, error, result and the progress dict, which the worker
\* only rebinds, are those of the copy, and the execution_trace list, which
\* progress_callback appends to in place, is read as it is when serialized
JsonOfCopy(copied, live) ==
    [copied EXCEPT !.execution_trace = live.execution_trace]

\* a request that has copied the run and not yet answered
Copied == reader # Absent /\ reader.pc = "copied"

\* do_GET, lines 72-81: the run is looked up and copied under runs_lock
ReaderCopy ==
    /\ run_state # Absent
    /\ ~Copied
    /\ reader' = [pc |-> "copied", held |-> run_state, payload |-> Absent]
    /\ UNCHANGED <<pc, client, max_iterations, memory, add_log, plan, steps, iteration,
                   step, observation, reflection, executed_count, expected_total_steps,
                   pooled_hits, execution_trace, last_primary_paper, evidence,
                   summarize_calls, result, executed, observed, next_uid, run_no,
                   emitted, run_state, reflect_calls, grok_live, grok_calls,
                   include_full_trace, full_trace, engine, tool_call, registry>>

\* do_GET, line 82: the copy is serialized after the lock is released
ReaderSend ==
    /\ Copied
    /\ reader' = [reader EXCEPT !.pc = "sent",
                                !.payload = JsonOfCopy(reader.held, run_state)]
    /\ UNCHANGED <<pc, client, max_iterations, memory, add_log, plan, steps, iteration,
                   step, observation, reflection, executed_count, expected_total_steps,
                   pooled_hits, execution_trace, last_primary_paper, evidence,
                   summarize_calls, result, executed, observed, next_uid, run_no,
                   emitted, run_state, reflect_calls, grok_live, grok_calls,
                   include_full_trace, full_trace, engine, tool_call, registry>>

ServerInit == InitRun /\ client = "injected" /\ include_full_trace = FALSE

ServerNext ==
    \/ \E p \in TracePlans : Plan(p)
    \/ PlanFails
    \/ ExecuteStep
    \/ \E r \in TraceReflections : Reflect(r)
    \/ ReflectFails
    \/ LeaveLoop
    \/ \E s \in Summaries : Summarize(s)
    \/ SummarizeFails
    \/ ReaderCopy
    \/ ReaderSend

ServerSpec == ServerInit /\ [][ServerNext]_vars

Sent == reader # Absent /\ reader.pc = "sent"

BatchFitsCap ==
    memory.compress_batch >= 1 /\ memory.compress_batch <= memory.max_events + 1

\* C39: for 1 <= compress_batch <= max_events + 1, after any sequence of
\* add_event calls the number of live events plus compress_batch times the
\* number of summary entries equals the number of calls, every summary entry
\* folds compress_batch events, and the live events are the most recently
\* added ones in insertion order.
C39_NoEventLost ==
    (pc = "memory_only" /\ BatchFitsCap) =>
        \E live \in {Len(memory.events)}, calls \in {Len(add_log)} :
            /\ live + memory.compress_batch * Len(memory.summary) = calls
            /\ \A j \in 1..Len(memory.summary) :
                  Len(memory.summary[j]) = memory.compress_batch
            /\ \A i \in 1..live :
                  memory.events[i].citations = add_log[calls - live + i]

\* C39 witness: two compressions of two events each and a live event left.
C39_Witness ==
    /\ pc = "memory_only"
    /\ BatchFitsCap
    /\ memory.compress_batch = 2
    /\ Len(memory.summary) = 2
    /\ Len(memory.events) >= 1
    /\ memory.events[1].citations # add_log[1]

(***************************************************************************)
(* Claims about which chunks a search returns, checked under ToolSpec      *)
(***************************************************************************)

\* the chunks whose token set shares a token with the query's token set
SharingChunks ==
    {k \in DOMAIN chunk_tokens :
        SeqSet(tokenize(tool_call.args.query)) \cap SeqSet(chunk_tokens[k]) # {}}

ReturnedChunkIds == {tool_call.result[i].chunk.chunk_id : i \in 1..Len(tool_call.result)}

\* C40: for alpha in [0,1] the hits of search are, before truncation to
\* top_k, exactly the chunks whose tokens (title + text + keywords) share a
\* token with the query's tokens: a truncated result holds top_k of them, an
\* untruncated one all of them; a query with no tokens returns no hits.
C40_HitsShareAToken ==
    Called("search") =>
        /\ ReturnedChunkIds \subseteq {chunks[k].chunk_id : k \in SharingChunks}
        /\ Len(tool_call.result) = Min(tool_call.args.top_k, Cardinality(SharingChunks))
        /\ Cardinality(ReturnedChunkIds) = Len(tool_call.result)
        /\ tool_call.args.top_k >= Len(chunks) =>
              ReturnedChunkIds = {chunks[k].chunk_id : k \in SharingChunks}
        /\ tokenize(tool_call.args.query) = <<>> => tool_call.result = <<>>

\* C40 witness: an untruncated search at alpha = 1 that returns some chunks
\* and leaves others out, for a query that has a token no chunk has.
C40_Witness ==
    /\ Called("search")
    /\ engine.alpha = 100
    /\ tool_call.args.top_k >= Len(chunks)
    /\ tool_call.args.query = Query3
    /\ tool_call.result # <<>>
    /\ Len(tool_call.result) < Len(chunks)

(***************************************************************************)
(* Claims about the execution of one step, checked under Spec              *)
(***************************************************************************)

JustExecuted == pc = "reflecting" /\ tool_call # Absent

GivenArgs == Get(step, "tool_args", <<>>)

\* C31: when a step is executed the tool run is the step's tool, or
\* hybrid_search when the step names none; the query passed is the step's
\* query argument, or its sub-question when it has no query argument; top_k
\* is the step's value, or the configured top_k; every other argument is
\* passed as given, the observation is the result of that call, and the step
\* the loop goes on with is the step as it was queued, tool_args included.
C31_StepArguments ==
    JustExecuted =>
        /\ tool_call.tool = (IF "tool" \in DOMAIN step THEN step.tool ELSE "hybrid_search")
        /\ "query" \in DOMAIN GivenArgs => tool_call.args.query = GivenArgs.query
        /\ ("query" \notin DOMAIN GivenArgs /\ Get(step, "sub_question", <<>>) # <<>>)
              => tool_call.args.query = step.sub_question
        /\ tool_call.args.top_k
              = (IF "top_k" \in DOMAIN GivenArgs THEN GivenArgs.top_k ELSE TopK)
        /\ \A k \in DOMAIN GivenArgs \ {"paper_id"} : tool_call.args[k] = GivenArgs[k]
        /\ tool_call.result = observation
        /\ observation.tool = tool_call.tool
        /\ tool_call.tool \in {"hybrid_search", "timeline_scan"} =>
              /\ observation.query = tool_call.args.query
              /\ Len(observation.hits) <= tool_call.args.top_k
        /\ step = executed[Len(executed)].step

\* C31 witness: a step that names no tool and has no tool_args has run as
\* hybrid_search on its sub-question with the configured top_k.
C31_Witness ==
    /\ JustExecuted
    /\ DOMAIN step \cap {"tool", "tool_args"} = {}
    /\ tool_call.tool = "hybrid_search"
    /\ tool_call.args.query = step.sub_question
    /\ tool_call.args.top_k = TopK
    /\ observation.hits # <<>>

ExecutesStep == pc = "loop" /\ pc' = "reflecting"

\* C32: after each executed step last_primary_paper is the paper id of the
\* first hit of that step's observation when it has a hit, and is what it was
\* before the step when it has none (zero-hit search, citation_graph, unknown
\* tool).
C32_PrimaryFollowsFirstHit ==
    [][ExecutesStep =>
          last_primary_paper' =
              (IF Get(observation', "hits", <<>>) # <<>>
               THEN observation'.hits[1].paper_id
               ELSE last_primary_paper)]_vars

\* C32 witness: a step without hits has run after a step with hits, and the
\* primary paper is still the first hit of the earlier step.
C32_Witness ==
    /\ pc = "reflecting"
    /\ Len(observed) = 2
    /\ Get(observed[1], "hits", <<>>) # <<>>
    /\ Get(observed[2], "hits", <<>>) = <<>>
    /\ last_primary_paper = observed[1].hits[1].paper_id

(***************************************************************************)
(* Claims about the step counters of the progress events, under Spec       *)
(***************************************************************************)

\* the steps the replanned events among the first n events added
RECURSIVE AddedBy(_, _)
AddedBy(events, n) ==
    IF n = 0 THEN 0
    ELSE AddedBy(events, n - 1) + Get(events[n], "added_steps", 0)

\* C38: in every progress event of a run step_index <= total_steps; the
\* count of executed steps never exceeds the initial plan length plus the
\* steps added by replans so far, which is what total_steps reports, and
\* total_steps never decreases from one event to a later one.
C38_StepIndexWithinTotal ==
    plan # Absent =>
        /\ \A i \in 1..Len(emitted) :
              {"step_index", "total_steps"} \subseteq DOMAIN emitted[i] =>
                 /\ emitted[i].step_index <= emitted[i].total_steps
                 /\ emitted[i].total_steps
                       = Len(PlanSteps(plan)) + AddedBy(emitted, i)
        /\ \A i, j \in 1..Len(emitted) :
              (i < j /\ "total_steps" \in DOMAIN emitted[i]
                     /\ "total_steps" \in DOMAIN emitted[j])
              => emitted[i].total_steps <= emitted[j].total_steps
        /\ executed_count = Len(executed)
        /\ executed_count <= expected_total_steps
        /\ expected_total_steps = Len(PlanSteps(plan)) + AddedBy(emitted, Len(emitted))
        /\ run_state.progress.step_index <= run_state.progress.total_steps

\* C38 witness: a run whose second step was added by a replan has emitted a
\* step event with step_index = total_steps = 2 after one with total_steps = 1.
C38_Witness ==
    /\ pc = "done"
    /\ Len(PlanSteps(plan)) = 1
    /\ \E i, j \in 1..Len(emitted) :
          /\ i < j
          /\ emitted[i].stage = "step_finished"
          /\ emitted[i].total_steps = 1
          /\ emitted[j].stage = "step_started"
          /\ emitted[j].step_index = 2
          /\ emitted[j].total_steps = 2

(***************************************************************************)
(* Claims about a run driven by the built-in client, under FairSpec        *)
(***************************************************************************)

MockClient == client = "GrokClient" /\ ~grok_live

\* C33: a run driven through ResearchPaperAgent.run by the built-in client in
\* offline/mock mode (grok_mock set or no API key) reaches DONE and returns a
\* result.
C33_MockRunCompletes ==
    (pc = "start" /\ MockClient) ~> (pc = "done" /\ result # Absent)

(***************************************************************************)
(* The run registry of create_handler: POST /api/run requests and workers  *)
(***************************************************************************)

MaxRegistered == 3

\* max_run_history, scaled down
MaxRunHistory == 2

WorkerPlanLens == {0, 1}

\* _run_agent_async, lines 164-180: the entry a new run is registered with
QueuedState ==
    [status |-> "queued",
     error |-> "",
     result |-> Absent,
     progress |-> [stage |-> "queued", step_index |-> 0, total_steps |-> 0],
     execution_trace |-> <<>>]

\* worker, lines 231-238
WorkerStarted(state) ==
    [state EXCEPT !.status = "running",
                  !.progress = [stage |-> "starting", step_index |-> 0, total_steps |-> 0]]

\* a pruning that shortens run_order and leaves the evicted entries in runs
_prune_runs_order_only(runs, run_order) ==
    [runs |-> runs,
     run_order |-> Drop(run_order, Max(Len(run_order) - MaxRunHistory, 0))]

\* _prune_runs: the oldest ids over max_run_history leave run_order and runs
_prune_runs(runs, run_order) ==
    IF Len(run_order) <= MaxRunHistory THEN [runs |-> runs, run_order |-> run_order]
    ELSE LET to_remove == Len(run_order) - MaxRunHistory
             removed == {run_order[i] : i \in 1..to_remove}
         IN [runs |-> [id \in DOMAIN runs \ removed |-> runs[id]],
             run_order |-> Drop(run_order, to_remove)]

\* a progress_callback that registers the run again when it is gone
CallbackOn_Recreates(runs, run_id, event) ==
    IF run_id \notin DOMAIN runs
    THEN (run_id :> progress_callback(QueuedState, event)) @@ runs
    ELSE [runs EXCEPT ![run_id] = progress_callback(runs[run_id], event)]

\* progress_callback, lines 211-225: `if state is None: return`
CallbackOn(runs, run_id, event) ==
    IF run_id \notin DOMAIN runs THEN runs
    ELSE [runs EXCEPT ![run_id] = progress_callback(runs[run_id], event)]

\* a completion that leaves the run running
CompleteOn_StillRunning(runs, run_id, res) ==
    IF run_id \notin DOMAIN runs THEN runs
    ELSE [runs EXCEPT ![run_id] = [runs[run_id] EXCEPT !.result = res]]

\* worker, lines 263-275
CompleteOn(runs, run_id, res) ==
    IF run_id \notin DOMAIN runs THEN runs
    ELSE [runs EXCEPT ![run_id] = WorkerCompleted(runs[run_id], res)]

\* worker, lines 247-261
FailOn(runs, run_id) ==
    IF run_id \notin DOMAIN runs THEN runs
    ELSE [runs EXCEPT ![run_id] = WorkerFailed(runs[run_id])]

\* do_GET, lines 72-82: the status code of GET /api/runs/<run_id>
GetStatus(runs, run_id) == IF run_id \in DOMAIN runs THEN 200 ELSE 404

\* the compact trace entry of step number i of a worker's run
WorkerTraceEntry(i) == [step_id |-> i]

\* the events agent.run gives to progress_callback for a plan of n steps
\* that no reflection extends.  The worker builds its agent without a
\* grok_client (line 241), and the plan call of run() raises on the built-in
\* client: that run is the script's first event followed by WorkerFail.  The
\* rest of the script is the run of an agent whose client takes the call.
WorkerScript(n) ==
    <<EvPlanning, EvPlanned(n)>>
    \o [k \in 1..(2 * n) |->
          IF k % 2 = 1 THEN EvStepStarted((k + 1) \div 2, n)
          ELSE EvStepFinished(k \div 2, n, WorkerTraceEntry(k \div 2))]
    \o <<EvSummarizing(0, n), EvDone(n, n)>>

\* the result of such a run, reduced to its execution_trace
WorkerResult(n) == [execution_trace |-> [i \in 1..n |-> WorkerTraceEntry(i)]]

RegistryInit ==
    /\ pc = "registry_only"
    /\ client = None
    /\ grok_live = FALSE
    /\ grok_calls = <<>>
    /\ NoRun
    /\ NoEngine
    /\ memory = NewContextMemory(MemoryWindow, DefaultCompressBatch)
    /\ add_log = <<>>
    /\ registry = [runs |-> <<>>, run_order |-> <<>>, workers |-> <<>>]

registryFrame ==
    <<pc, client, max_iterations, memory, add_log, plan, steps, iteration, step,
      observation, reflection, executed_count, expected_total_steps, pooled_hits,
      execution_trace, last_primary_paper, evidence, summarize_calls, result,
      executed, observed, next_uid, run_no, emitted, run_state, reflect_calls,
      grok_live, grok_calls, include_full_trace, full_trace, engine, tool_call, reader>>

Registering == pc = "registry_only" /\ registry # Absent

\* _run_agent_async, lines 162-184 and 277-278: the run is registered under
\* the lock, the registry is pruned and a worker thread is started.  The run
\* id, uuid4().hex[:12], is taken to be fresh: the number of the registration.
Register(n) ==
    /\ Registering
    /\ Len(registry.workers) < MaxRegistered
    /\ \E run_id \in {Len(registry.workers) + 1} :
       \E pruned \in {_prune_runs((run_id :> QueuedState) @@ registry.runs,
                                  Append(registry.run_order, run_id))} :
          registry' = [runs |-> pruned.runs,
                       run_order |-> pruned.run_order,
                       workers |-> Append(registry.workers,
                                          [pc |-> "spawned", next |-> 1, plan_len |-> n])]
    /\ UNCHANGED registryFrame

\* worker, lines 228-238
WorkerStart(run_id) ==
    /\ Registering
    /\ registry.workers[run_id].pc = "spawned"
    /\ registry' = [registry EXCEPT
                      !.runs = IF run_id \in DOMAIN registry.runs
                               THEN [registry.runs EXCEPT
                                        ![run_id] = WorkerStarted(registry.runs[run_id])]
                               ELSE registry.runs,
                      !.workers[run_id].pc = "running"]
    /\ UNCHANGED registryFrame

\* progress_callback, lines 186-225, for the next event of the worker's run
WorkerEmit(run_id) ==
    /\ Registering
    /\ registry.workers[run_id].pc = "running"
    /\ registry.workers[run_id].next <= Len(WorkerScript(registry.workers[run_id].plan_len))
    /\ registry' = [registry EXCEPT
                      !.runs = CallbackOn(registry.runs, run_id,
                                          WorkerScript(registry.workers[run_id].plan_len)
                                                      [registry.workers[run_id].next]),
                      !.workers[run_id].next = @ + 1]
    /\ UNCHANGED registryFrame

\* worker, lines 263-275: agent.run has returned
WorkerComplete(run_id) ==
    /\ Registering
    /\ registry.workers[run_id].pc = "running"
    /\ registry.workers[run_id].next > Len(WorkerScript(registry.workers[run_id].plan_len))
    /\ registry' = [registry EXCEPT
                      !.runs = CompleteOn(registry.runs, run_id,
                                          WorkerResult(registry.workers[run_id].plan_len)),
                      !.workers[run_id].pc = "ended"]
    /\ UNCHANGED registryFrame

\* worker, lines 247-261: the agent has raised before returning
WorkerFail(run_id) ==
    /\ Registering
    /\ registry.workers[run_id].pc = "running"
    /\ registry.workers[run_id].next <= Len(WorkerScript(registry.workers[run_id].plan_len))
    /\ registry' = [registry EXCEPT
                      !.runs = FailOn(registry.runs, run_id),
                      !.workers[run_id].pc = "ended"]
    /\ UNCHANGED registryFrame

RegistryNext ==
    \/ \E n \in WorkerPlanLens : Register(n)
    \/ \E run_id \in DOMAIN registry.workers : WorkerStart(run_id)
    \/ \E run_id \in DOMAIN registry.workers : WorkerEmit(run_id)
    \/ \E run_id \in DOMAIN registry.workers : WorkerComplete(run_id)
    \/ \E run_id \in DOMAIN registry.workers : WorkerFail(run_id)

RegistrySpec == RegistryInit /\ [][RegistryNext]_vars

(***************************************************************************)
(* Claims about the run registry, checked under RegistrySpec               *)
(***************************************************************************)

IsStepFinished(event) == event.stage = "step_finished" /\ "trace_entry" \in DOMAIN event

\* the trace entries of the step_finished events among the first n events
TraceEntriesOf(script, n) ==
    TheOne({[i \in 1..Len(fin) |-> fin[i].trace_entry] :
               fin \in {SelectSeq(SubSeq(script, 1, n), IsStepFinished)}})

StatusMoves ==
    {<<"queued", "running">>, <<"running", "completed">>, <<"running", "failed">>}

Terminal == {"completed", "failed"}

\* C35: the status of a registered run only moves queued -> running ->
\* completed or queued -> running -> failed; a run enters the registry as
\* queued; completed and failed are terminal (no later write changes the
\* entry); result is non-null only when status is completed and error is
\* non-empty only when status is failed.
C35_StatusLifecycle ==
    /\ [](Registering =>
            \A run_id \in DOMAIN registry.runs :
                /\ registry.runs[run_id].status
                      \in {"queued", "running", "completed", "failed"}
                /\ registry.runs[run_id].result # Absent
                      => registry.runs[run_id].status = "completed"
                /\ registry.runs[run_id].error # ""
                      => registry.runs[run_id].status = "failed")
    /\ [][Registering =>
            \A run_id \in DOMAIN registry'.runs :
                IF run_id \in DOMAIN registry.runs
                THEN /\ \/ registry'.runs[run_id].status = registry.runs[run_id].status
                        \/ <<registry.runs[run_id].status, registry'.runs[run_id].status>>
                              \in StatusMoves
                     /\ registry.runs[run_id].status \in Terminal
                           => registry'.runs[run_id] = registry.runs[run_id]
                ELSE registry'.runs[run_id].status = "queued"]_vars

\* C35 witness: the registry holds a completed run with its result and a
\* failed run with its error.
C35_Witness ==
    /\ Registering
    /\ \E a, b \in DOMAIN registry.runs :
          /\ registry.runs[a].status = "completed"
          /\ registry.runs[a].result # Absent
          /\ registry.runs[a].error = ""
          /\ registry.runs[b].status = "failed"
          /\ registry.runs[b].error # ""
          /\ registry.runs[b].result = Absent

\* C36: whenever the registry lock is free the keys of runs are the ids of
\* run_order, run_order has no duplicates and at most max_run_history ids,
\* and it holds the most recently registered runs in registration order, so
\* the evicted runs are the oldest ones.
C36_RegistryConsistent ==
    Registering =>
        \E order \in {registry.run_order} :
            /\ DOMAIN registry.runs = SeqSet(order)
            /\ Cardinality(SeqSet(order)) = Len(order)
            /\ Len(order) <= MaxRunHistory
            /\ Len(order) = Min(Len(registry.workers), MaxRunHistory)
            /\ \A i \in 1..Len(order) :
                  order[i] = Len(registry.workers) - Len(order) + i

\* C36 witness: one run more than max_run_history has been registered while
\* the worker of the oldest is still running.
C36_Witness ==
    /\ Registering
    /\ Len(registry.workers) = MaxRunHistory + 1
    /\ Len(registry.run_order) = MaxRunHistory
    /\ 1 \notin DOMAIN registry.runs
    /\ registry.workers[1].pc = "running"

Evicted(run_id) == run_id \in DOMAIN registry.workers /\ run_id \notin DOMAIN registry.runs

\* C37: once a run is evicted, no later progress update, completion or
\* failure of its worker re-creates its entry or alters the entry of another
\* run: the registry is as it was before the update, and GET for that id
\* keeps answering 404.
C37_EvictedStaysGone ==
    [][Registering =>
          \A run_id \in DOMAIN registry.workers :
              Evicted(run_id) =>
                 /\ run_id \notin DOMAIN registry'.runs
                 /\ GetStatus(registry'.runs, run_id) = 404
                 /\ registry'.workers[run_id] # registry.workers[run_id]
                       => /\ registry'.runs = registry.runs
                          /\ registry'.run_order = registry.run_order]_vars

\* C37 witness: the worker of an evicted run has emitted all its events and
\* ended, and its id is not in the registry.
C37_Witness ==
    /\ Registering
    /\ Evicted(1)
    /\ registry.workers[1].pc = "ended"
    /\ registry.workers[1].next > Len(WorkerScript(registry.workers[1].plan_len))
    /\ registry.workers[MaxRegistered - 1].pc = "spawned"
    /\ Len(registry.workers) = MaxRegistered

====
